---- MODULE Spec2Model ----
(***************************************************************************)
(* A model of the backup agent: the backup pipeline (ExecuteBackup and the *)
(* functions it calls), the backup ledger (backups.json) and the cron      *)
(* manager with its projection onto the system crontab.                    *)
(***************************************************************************)
EXTENDS Integers, Sequences, FiniteSets, TLC

VARIABLES
    now,            \* the wall clock, in seconds
    ledger,         \* content of backups.json: a sequence of BackupRecord
    files,          \* archive files that exist under /tmp
    bucketExists,   \* whether the destination bucket exists
    objects,        \* the bucket's objects: [key, lastModified]
    serviceUp,      \* whether the compose project is running
    run,            \* per run of ExecuteBackup: its locals and its history
    started,        \* number of runs begun so far
    exited,         \* the agent's process has ended
    entries,        \* CronManager.entries: task identifier -> cron.EntryID
    cron,           \* the trigger engine's live entries
    nextID,         \* the engine's last issued EntryID
    crontab,        \* the system crontab: a sequence of lines
    config,         \* Config.Tasks
    loadIdx,        \* LoadTasks: index of the next task to load, 0 at the end
    handler,        \* per HTTP handler: its position in AddTask / RemoveTask
    crashed,        \* the runtime stopped the process (concurrent map access)
    calls,          \* history: the last call of AddTask / RemoveTask
    ioFailed,       \* history: some crontab read or write has failed
    names,          \* history: the archive names computed, with their inputs
    main            \* main(): its position, the flag, what it has started

backupVars ==
    <<now, ledger, files, bucketExists, objects, serviceUp, run, started,
      exited>>

cronVars ==
    <<entries, cron, nextID, crontab, config, loadIdx, handler, crashed,
      calls, ioFailed>>

\* the process: the naming of archives and the course of main
procVars == <<names, main>>

vars == <<backupVars, cronVars, procVars>>

\* ------------------------------------------------------------------ bounds

\* the last second the clock reaches
MaxClock == 1

\* the length of a day on the model's clock (86400 s, scaled down)
DaySeconds == 1

\* the longest crontab, in lines, the model lets the agent write
MaxLines == 4

\* the last EntryID the model lets the trigger engine issue
MaxEntryID == 3

\* ------------------------------------------------------------ small helpers

\* a nil pointer, and a pointer to a value
NULL == <<>>

Ptr(v) == <<v>>

\* the empty string, of the strings the model holds as sequences (archive
\* names, archive paths, destination paths)
Empty == <<>>

\* the slots in which ExecuteBackup runs; a behaviour begins at most as many
\* runs as there are slots
Runs == {"r1", "r2"}

RunBudget == Cardinality(Runs)

SeqCount(s, P(_)) == Cardinality({i \in 1..Len(s) : P(s[i])})

\* strings.TrimPrefix(s, "/")
TrimPrefix(s) ==
    IF Len(s) > 0 /\ s[1] = "/" THEN SubSeq(s, 2, Len(s)) ELSE s

\* strings.ReplaceAll(s, "/", "_")
ReplaceAll(s) ==
    [i \in 1..Len(s) |-> IF s[i] = "/" THEN "_" ELSE s[i]]

safePath(sourcePath) == ReplaceAll(TrimPrefix(sourcePath))

\* the layout with the seconds field left out
Timestamp_Minutes(t) ==
    <<t \div 86400, "_", (t \div 3600) % 24, (t \div 60) % 60>>

\* time.Now().Format("20060102_150405") of an instant t in whole seconds:
\* the calendar day, then the hour, minute and second of the wall clock
Timestamp(t) ==
    <<t \div 86400, "_", (t \div 3600) % 24, (t \div 60) % 60, t % 60>>

\* fmt.Sprintf("%s_%s_%s.%s", serverIP, safePath, timestamp, format)
ArchiveName(serverIP, sourcePath, t, format) ==
    <<serverIP, safePath(sourcePath), Timestamp(t), format>>

\* the configured host identifier, "unknown" when it is empty
ConfigServerIP == "10.0.0.1"

HostId(ip) == IF ip = "" THEN "unknown" ELSE ip

\* ------------------------------------------------------------------ tasks

SourcePaths == { <<"/", "d">> }

\* The walk of a source tree, in filepath.Walk order.
Tree(sourcePath) ==
    << [rel |-> ".", regular |-> FALSE],
       [rel |-> "a", regular |-> TRUE],
       [rel |-> "s", regular |-> FALSE],
       [rel |-> "s/b", regular |-> TRUE] >>

countFiles(sourcePath) ==
    SeqCount(Tree(sourcePath), LAMBDA e : e.regular)

\* backup.go:180-212: the names (header.Name = relPath) under which the
\* archive file holds the content of the regular files, when the bytes
\* written for the first k entries of the walk have reached the file
Archived(sourcePath, k) ==
    {Tree(sourcePath)[i].rel : i \in {j \in 1..k : Tree(sourcePath)[j].regular}}

DockerSettings ==
    { [IsDockerCompose |-> TRUE,  DockerComposePath |-> "/srv/compose.yml"],
      [IsDockerCompose |-> TRUE,  DockerComposePath |-> ""],
      [IsDockerCompose |-> FALSE, DockerComposePath |-> "/srv/compose.yml"] }

StorageSettings ==
    { [S3Endpoint |-> "https://s3", S3Bucket |-> "bk"],
      [S3Endpoint |-> "",           S3Bucket |-> "bk"] }

Tasks ==
    { [TaskID |-> 1, SourcePath |-> p, CreateArchive |-> a,
       ArchiveFormat |-> "tar.gz",
       S3Endpoint |-> s.S3Endpoint, S3Bucket |-> s.S3Bucket,
       CleanupEnabled |-> c, CleanupDays |-> 1,
       IsDockerCompose |-> d.IsDockerCompose,
       DockerComposePath |-> d.DockerComposePath] :
         p \in SourcePaths, a \in BOOLEAN, c \in BOOLEAN,
         s \in StorageSettings, d \in DockerSettings }

NoTask ==
    [TaskID |-> 0, SourcePath |-> <<>>, CreateArchive |-> FALSE,
     ArchiveFormat |-> "", S3Endpoint |-> "", S3Bucket |-> "",
     CleanupEnabled |-> FALSE, CleanupDays |-> 0,
     IsDockerCompose |-> FALSE, DockerComposePath |-> ""]

\* backup.go:35: the condition under which the service guard is acquired
GuardAcquired(t) == t.IsDockerCompose /\ t.DockerComposePath # ""

\* backup.go:111: destination storage is configured
StorageConfigured(t) == t.S3Endpoint # "" /\ t.S3Bucket # ""

\* ------------------------------------------------------------ the run state

\* type BackupResult
EmptyResult ==
    [Success |-> FALSE, ArchivePath |-> Empty, ArchiveSize |-> 0,
     FilesCount |-> 0, Error |-> "", S3Path |-> Empty]

\* history of a run's cleanup sweep: the cutoff it computed, the objects the
\* bucket held when it listed them and those it held when the sweep ended
NoSweep ==
    [done |-> FALSE, cutoff |-> 0, before |-> {}, after |-> {}, listed |-> {}]

IdleRun ==
    [pc |-> "idle", task |-> NoTask, result |-> EmptyResult, err |-> "nil",
     archiveName |-> Empty, backupRecord |-> NULL, records |-> <<>>,
     uploadDate |-> 0, timestamp |-> 0, walk |-> 0,
     guarded |-> FALSE, ledger0 |-> <<>>, trace |-> <<>>, sweep |-> NoSweep,
     raced |-> FALSE, archived |-> {}]

Ev(op, ok) == [op |-> op, ok |-> ok]

Log(r, op, ok) == Append(run[r].trace, Ev(op, ok))

Count(r, op) == SeqCount(run[r].trace, LAMBDA e : e.op = op)

Did(r, op) == Count(r, op) > 0

Ok(r, op) == \E i \in 1..Len(run[r].trace) :
                 run[r].trace[i].op = op /\ run[r].trace[i].ok

Failed(r, op) == \E i \in 1..Len(run[r].trace) :
                     run[r].trace[i].op = op /\ ~run[r].trace[i].ok

Set(r, rec) == run' = [run EXCEPT ![r] = rec]

\* A return statement of ExecuteBackup: the deferred restart, registered when
\* the guard was acquired, runs before the caller sees the result.
Return(rec) ==
    [rec EXCEPT !.pc = IF rec.guarded THEN "restart" ELSE "done"]

\* an object left in the bucket by a backup of two days ago
OldObject ==
    [key |-> ArchiveName(HostId(ConfigServerIP), <<"/", "d">>,
                         0 - 2 * DaySeconds, "tar.gz"),
     lastModified |-> 0 - 2 * DaySeconds]

\* The agent starts with no ledger and no archive under /tmp; the bucket is
\* either absent or holds an old backup.
InitBackup ==
    /\ now = 0
    /\ ledger = <<>>
    /\ files = {}
    /\ bucketExists \in BOOLEAN
    /\ objects = IF bucketExists THEN {OldObject} ELSE {}
    /\ serviceUp = TRUE
    /\ run = [r \in Runs |-> IdleRun]
    /\ started = 0
    /\ exited = FALSE

\* ---------------------------------------------------------------- the clock

Tick ==
    /\ now < MaxClock
    /\ now' = now + 1
    /\ UNCHANGED <<ledger, files, bucketExists, objects, serviceUp, run, started, exited, cronVars, procVars>>

\* ------------------------------------------------------ ExecuteBackup steps

\* backup.go:66-68,105: after the guard, build the archive or only count files
AfterGuard(rec) ==
    [rec EXCEPT !.pc = IF rec.task.CreateArchive THEN "archive" ELSE "count"]

\* the end of the run with the cleanup error returned instead of logged
Finish_CleanupFatal(rec) ==
    IF Len(rec.trace) > 0 /\ rec.trace[Len(rec.trace)] = Ev("cleanup", FALSE)
    THEN Return([rec EXCEPT !.err = "cleanup"])
    ELSE Return([rec EXCEPT !.result.Success = TRUE])

\* backup.go:150-151: result.Success = true; return result, nil
Finish(rec) == Return([rec EXCEPT !.result.Success = TRUE])

\* backup.go:143-149: the cleanup sweep runs only when the task enables it
AfterUpload(rec) ==
    IF rec.task.CleanupEnabled THEN [rec EXCEPT !.pc = "cleanup"]
    ELSE Finish(rec)

\* the upload entered whether or not destination storage is configured
AfterCount_AlwaysUpload(rec) ==
    [rec EXCEPT !.pc = IF rec.result.ArchivePath # Empty THEN "s3check"
                       ELSE "dircheck"]

\* backup.go:110-112,132: which upload, if any, follows the archive step
AfterCount(rec) ==
    IF StorageConfigured(rec.task)
    THEN [rec EXCEPT !.pc = IF rec.result.ArchivePath # Empty THEN "s3check"
                              ELSE "dircheck"]
    ELSE AfterUpload(rec)

\* backup.go:30-35: the entry of ExecuteBackup
Enter(r, t) ==
    /\ run[r].pc = "idle"
    /\ started < RunBudget
    /\ started' = started + 1
    /\ LET rec == [IdleRun EXCEPT !.task = t, !.ledger0 = ledger] IN
       Set(r, IF GuardAcquired(t) THEN [rec EXCEPT !.pc = "stop"]
              ELSE AfterGuard(rec))

\* A caller (cron trigger, HTTP handler) enters ExecuteBackup.
Begin(r, t) ==
    /\ Enter(r, t)
    /\ UNCHANGED <<now, ledger, files, bucketExists, objects, serviceUp, exited, cronVars, procVars>>

\* the legacy command run whatever the primary one returned
ComposeEvents_Both(op, outcome) ==
    <<Ev(op, outcome = "primary"), Ev(op \o "Legacy", outcome # "none")>>

\* The two compose commands of a stop or of a restart: the legacy command is
\* run only when the primary one failed.
ComposeEvents(op, outcome) ==
    IF outcome = "primary" THEN <<Ev(op, TRUE)>>
    ELSE <<Ev(op, FALSE), Ev(op \o "Legacy", outcome = "legacy")>>

ComposeOutcomes == {"primary", "legacy", "none"}

\* backup.go:36-63: stop the compose project and register the restart
DockerDown(r) ==
    /\ run[r].pc = "stop"
    /\ \E outcome \in ComposeOutcomes :
         /\ serviceUp' = IF outcome = "none" THEN serviceUp ELSE FALSE
         /\ Set(r, AfterGuard([run[r] EXCEPT
                     !.guarded = TRUE,
                     !.trace = @ \o ComposeEvents("down", outcome)]))
    /\ UNCHANGED <<now, ledger, files, bucketExists, objects, started, exited, cronVars, procVars>>

\* backup.go:51-63: the deferred restart
DockerUp(r) ==
    /\ run[r].pc = "restart"
    /\ \E outcome \in ComposeOutcomes :
         /\ serviceUp' = IF outcome = "none" THEN serviceUp ELSE TRUE
         /\ Set(r, [run[r] EXCEPT
                     !.pc = "done",
                     !.trace = @ \o ComposeEvents("up", outcome)])
    /\ UNCHANGED <<now, ledger, files, bucketExists, objects, started, exited, cronVars, procVars>>

\* the archive-failure return with the restart forgotten on that path
ArchiveFailed_NoRestart(rec) ==
    [rec EXCEPT !.result.Error = "Failed to create archive",
                !.err = "archive", !.pc = "done"]

\* the archive failure logged and the run carried on as one without archive
ArchiveFailed_Continue(rec) ==
    [rec EXCEPT !.result.Error = "Failed to create archive", !.pc = "count"]

\* backup.go:70-73: the archive build failed
ArchiveFailed(rec) ==
    Return([rec EXCEPT !.result.Error = "Failed to create archive",
                       !.err = "archive"])

\* backup.go:69-76,154-219: createArchive and the handling of its outcome
CreateArchive(r) ==
    /\ run[r].pc = "archive"
    /\ LET t == run[r].task
           name == ArchiveName(HostId(ConfigServerIP), t.SourcePath, now,
                               t.ArchiveFormat)
       IN \E outcome \in {"createFailed", "walkFailed", "ok"} :
            /\ files' = IF outcome = "createFailed" THEN files
                        ELSE files \cup {name}
            /\ Set(r, IF outcome = "ok"
                      THEN [run[r] EXCEPT !.result.ArchivePath = name,
                                          !.archiveName = name,
                                          !.pc = "save",
                                          !.archived =
                                              Archived(t.SourcePath,
                                                  Len(Tree(t.SourcePath))),
                                          !.trace = Log(r, "archive", TRUE)]
                      ELSE ArchiveFailed([run[r] EXCEPT
                                          !.trace = Log(r, "archive", FALSE)]))
    /\ UNCHANGED <<now, ledger, bucketExists, objects, serviceUp, started, exited, cronVars, procVars>>

\* backup.go:168-178,214-218: the walk ends without an error and
\* createArchive returns nil; the deferred tarWriter.Close(),
\* gzipWriter.Close() and file.Close() then write what the writers still
\* buffer, and their errors are dropped: when one of them fails the file
\* holds the bytes of the first k entries only.
CreateArchiveUnflushed(r) ==
    /\ run[r].pc = "archive"
    /\ LET t == run[r].task
           name == ArchiveName(HostId(ConfigServerIP), t.SourcePath, now,
                               t.ArchiveFormat)
       IN \E k \in 0..(Len(Tree(t.SourcePath)) - 1) :
            /\ files' = files \cup {name}
            /\ Set(r, [run[r] EXCEPT !.result.ArchivePath = name,
                                     !.archiveName = name,
                                     !.pc = "save",
                                     !.archived = Archived(t.SourcePath, k),
                                     !.trace = Log(r, "archive", TRUE)])
    /\ UNCHANGED <<now, ledger, bucketExists, objects, serviceUp, started, exited, cronVars, procVars>>

\* backup.go:78-84: the record written at archive-creation time
NewRecord(t, name, date) ==
    [SourcePath |-> t.SourcePath, ArchiveName |-> name, BackupDate |-> date,
     S3UploadDate |-> NULL, ArchiveSizeMB |-> 0, S3Path |-> Empty,
     Status |-> "creating"]

\* backup_storage.go:23-34: SaveBackupRecord up to the read of backups.json
SaveRead(r) ==
    /\ run[r].pc = "save"
    /\ \E mkdirOk \in BOOLEAN :
         Set(r, IF mkdirOk
                THEN [run[r] EXCEPT
                        !.backupRecord =
                            NewRecord(run[r].task, run[r].archiveName, now),
                        !.records = ledger,
                        !.pc = "saveWrite"]
                ELSE [run[r] EXCEPT !.trace = Log(r, "save", FALSE),
                                    !.pc = "stat"])
    /\ UNCHANGED <<now, ledger, files, bucketExists, objects, serviceUp, started, exited, cronVars, procVars>>

\* backup_storage.go:36-45: append the record and rewrite backups.json
SaveWrite(r) ==
    /\ run[r].pc = "saveWrite"
    /\ \E writeOk \in BOOLEAN :
         /\ ledger' = IF writeOk
                      THEN Append(run[r].records, run[r].backupRecord)
                      ELSE ledger
         /\ Set(r, [run[r] EXCEPT !.trace = Log(r, "save", writeOk),
                                  !.records = <<>>,
                                  !.pc = "stat"])
    /\ UNCHANGED <<now, files, bucketExists, objects, serviceUp, started, exited, cronVars, procVars>>

\* the size os.Stat reports for an archive of the source tree
ArchiveBytes(sourcePath) == Len(Tree(sourcePath)) + countFiles(sourcePath)

\* backup.go:89-104: stat the archive (the size is backfilled into a copy of
\* the records that is never written back) and count the files
Stat(r) ==
    /\ run[r].pc = "stat"
    /\ \E statOk \in BOOLEAN :
         /\ statOk => run[r].result.ArchivePath \in files
         /\ Set(r, AfterCount([run[r] EXCEPT
                     !.result.ArchiveSize =
                         IF statOk THEN ArchiveBytes(run[r].task.SourcePath)
                         ELSE 0,
                     !.result.FilesCount = countFiles(run[r].task.SourcePath),
                     !.trace = Log(r, "stat", statOk)]))
    /\ UNCHANGED <<now, ledger, files, bucketExists, objects, serviceUp, started, exited, cronVars, procVars>>

\* counting the files and recording the directory in the Ledger
CountOnly_Recording(r) ==
    /\ run[r].pc = "count"
    /\ ledger' = Append(ledger, NewRecord(run[r].task, Empty, now))
    /\ Set(r, AfterCount([run[r] EXCEPT
                !.result.FilesCount = countFiles(run[r].task.SourcePath)]))
    /\ UNCHANGED <<now, files, bucketExists, objects, serviceUp, started, exited, cronVars, procVars>>

\* backup.go:105-108: archiving disabled, only count the files
CountOnly(r) ==
    /\ run[r].pc = "count"
    /\ Set(r, AfterCount([run[r] EXCEPT
                !.result.FilesCount = countFiles(run[r].task.SourcePath)]))
    /\ UNCHANGED <<now, ledger, files, bucketExists, objects, serviceUp, started, exited, cronVars, procVars>>

\* ------------------------------------------------------------ object storage

\* FPutObject: a put replaces a same-named object
PutObject(objs, key, t) ==
    {o \in objs : o.key # key} \cup {[key |-> key, lastModified |-> t]}

\* the upload-failure path with its return statement forgotten: the run falls
\* through to the cleanup sweep
UploadFailed_FallThrough(rec) ==
    [rec EXCEPT !.result.Error = "Failed to upload to S3",
                !.err = "upload", !.pc = "cleanup"]

\* backup.go:115-118: the archive upload failed
UploadFailed(rec) ==
    Return([rec EXCEPT !.result.Error = "Failed to upload to S3",
                       !.err = "upload"])

\* the directory-upload failure logged, the run going on to the sweep
DirUploadFailed_FallThrough(rec) ==
    AfterUpload([rec EXCEPT !.result.Error = "Failed to upload directory to S3"])

\* backup.go:135-138: the directory upload failed
DirUploadFailed(rec) ==
    Return([rec EXCEPT !.result.Error = "Failed to upload directory to S3",
                       !.err = "dirupload"])

\* backup.go:240-261: uploadToS3, client and bucket existence check
S3Check(r) ==
    /\ run[r].pc = "s3check"
    /\ \E checkOk \in BOOLEAN :
         Set(r, IF checkOk
                THEN [run[r] EXCEPT
                        !.pc = IF bucketExists THEN "s3put" ELSE "s3make",
                        !.trace = Log(r, "bucketCheck", TRUE)]
                ELSE UploadFailed([run[r] EXCEPT
                        !.trace = Log(r, "bucketCheck", FALSE)]))
    /\ UNCHANGED <<now, ledger, files, bucketExists, objects, serviceUp, started, exited, cronVars, procVars>>

\* backup.go:257-261: uploadToS3, MakeBucket when BucketExists said "absent"
S3Make(r) ==
    /\ run[r].pc = "s3make"
    /\ \E makeOk \in BOOLEAN :
         /\ makeOk => ~bucketExists
         /\ bucketExists' = (bucketExists \/ makeOk)
         /\ Set(r, IF makeOk
                   THEN [run[r] EXCEPT !.pc = "s3put",
                                       !.trace = Log(r, "bucketMake", TRUE)]
                   ELSE UploadFailed([run[r] EXCEPT
                                       !.raced = bucketExists,
                                       !.trace = Log(r, "bucketMake", FALSE)]))
    /\ UNCHANGED <<now, ledger, files, objects, serviceUp, started, exited, cronVars, procVars>>

\* backup.go:270: fmt.Sprintf("s3://%s/%s", bucket, objectName)
S3PathOf(bucket, objectName) == <<"s3://", bucket, objectName>>

\* backup.go:263-273,119: uploadToS3, FPutObject of the archive file
S3Put(r) ==
    /\ run[r].pc = "s3put"
    /\ LET objectName == run[r].result.ArchivePath IN
       \E putOk \in BOOLEAN :
         /\ putOk => bucketExists /\ objectName \in files
         /\ objects' = IF putOk THEN PutObject(objects, objectName, now)
                       ELSE objects
         /\ Set(r, IF putOk
                   THEN [run[r] EXCEPT
                           !.result.S3Path =
                               S3PathOf(run[r].task.S3Bucket, objectName),
                           !.pc = "update",
                           !.trace = Log(r, "put", TRUE)]
                   ELSE UploadFailed([run[r] EXCEPT
                           !.trace = Log(r, "put", FALSE)]))
    /\ UNCHANGED <<now, ledger, files, bucketExists, serviceUp, started, exited, cronVars, procVars>>

\* the update with the status assignment forgotten
UpdateFirst_NoStatus(records, archiveName, s3Path, uploadDate) ==
    LET hits == {i \in 1..Len(records) : records[i].ArchiveName = archiveName}
    IN IF hits = {} THEN records
       ELSE LET first == CHOOSE i \in hits : \A j \in hits : i <= j IN
            [records EXCEPT ![first] = [@ EXCEPT !.S3Path = s3Path,
                                                 !.S3UploadDate = Ptr(uploadDate)]]

\* backup_storage.go:69-76: the first record named archiveName becomes a success
UpdateFirst(records, archiveName, s3Path, uploadDate) ==
    LET hits == {i \in 1..Len(records) : records[i].ArchiveName = archiveName}
    IN IF hits = {} THEN records
       ELSE LET first == CHOOSE i \in hits : \A j \in hits : i <= j IN
            [records EXCEPT ![first] = [@ EXCEPT !.S3Path = s3Path,
                                                 !.S3UploadDate = Ptr(uploadDate),
                                                 !.Status = "success"]]

\* backup.go:122, backup_storage.go:62-66: UpdateBackupRecord, GetBackupRecords
UpdateRead(r) ==
    /\ run[r].pc = "update"
    /\ \E readOk \in BOOLEAN :
         Set(r, IF readOk
                THEN [run[r] EXCEPT !.records = ledger,
                                    !.uploadDate = now,
                                    !.pc = "updateWrite"]
                ELSE [run[r] EXCEPT !.trace = Log(r, "update", FALSE),
                                    !.pc = "remove"])
    /\ UNCHANGED <<now, ledger, files, bucketExists, objects, serviceUp, started, exited, cronVars, procVars>>

\* backup_storage.go:51-53,63: os.ReadFile fails on a file that exists (an
\* I/O error, a descriptor limit); GetBackupRecords takes every failure of
\* the read for "no file yet" and returns the empty list without an error,
\* and UpdateBackupRecord goes on to rewrite the file from that list
UpdateReadUnreadable(r) ==
    /\ run[r].pc = "update"
    /\ Set(r, [run[r] EXCEPT !.records = <<>>,
                             !.uploadDate = now,
                             !.pc = "updateWrite"])
    /\ UNCHANGED <<now, ledger, files, bucketExists, objects, serviceUp, started, exited, cronVars, procVars>>

\* backup_storage.go:68-84: UpdateBackupRecord, modify and rewrite backups.json
UpdateWrite(r) ==
    /\ run[r].pc = "updateWrite"
    /\ \E writeOk \in BOOLEAN :
         /\ ledger' = IF writeOk
                      THEN UpdateFirst(run[r].records, run[r].archiveName,
                                       run[r].result.S3Path, run[r].uploadDate)
                      ELSE ledger
         /\ Set(r, [run[r] EXCEPT !.trace = Log(r, "update", writeOk),
                                  !.records = <<>>,
                                  !.pc = "remove"])
    /\ UNCHANGED <<now, files, bucketExists, objects, serviceUp, started, exited, cronVars, procVars>>

\* backup.go:126-131: remove the local archive after the upload
RemoveArchive(r) ==
    /\ run[r].pc = "remove"
    /\ \E removeOk \in BOOLEAN :
         /\ removeOk => run[r].result.ArchivePath \in files
         /\ files' = IF removeOk THEN files \ {run[r].result.ArchivePath}
                     ELSE files
         /\ Set(r, AfterUpload([run[r] EXCEPT
                                 !.trace = Log(r, "remove", removeOk)]))
    /\ UNCHANGED <<now, ledger, bucketExists, objects, serviceUp, started, exited, cronVars, procVars>>

\* backup.go:283-303: uploadDirectoryToS3, client and bucket existence check
DirCheck(r) ==
    /\ run[r].pc = "dircheck"
    /\ \E checkOk \in BOOLEAN :
         Set(r, IF checkOk
                THEN [run[r] EXCEPT
                        !.pc = IF bucketExists THEN "dirwalk" ELSE "dirmake",
                        !.timestamp = IF bucketExists THEN Timestamp(now)
                                      ELSE 0,
                        !.walk = 1,
                        !.trace = Log(r, "bucketCheck", TRUE)]
                ELSE DirUploadFailed([run[r] EXCEPT
                        !.trace = Log(r, "bucketCheck", FALSE)]))
    /\ UNCHANGED <<now, ledger, files, bucketExists, objects, serviceUp, started, exited, cronVars, procVars>>

\* backup.go:299-307: uploadDirectoryToS3, MakeBucket when BucketExists said "absent"
DirMake(r) ==
    /\ run[r].pc = "dirmake"
    /\ \E makeOk \in BOOLEAN :
         /\ makeOk => ~bucketExists
         /\ bucketExists' = (bucketExists \/ makeOk)
         /\ Set(r, IF makeOk
                   THEN [run[r] EXCEPT !.pc = "dirwalk",
                                       !.timestamp = Timestamp(now),
                                       !.trace = Log(r, "bucketMake", TRUE)]
                   ELSE DirUploadFailed([run[r] EXCEPT
                                       !.raced = bucketExists,
                                       !.trace = Log(r, "bucketMake", FALSE)]))
    /\ UNCHANGED <<now, ledger, files, objects, serviceUp, started, exited, cronVars, procVars>>

\* filepath.Base(sourcePath)
BaseName(sourcePath) ==
    LET seps == {i \in 1..Len(sourcePath) : sourcePath[i] = "/"} IN
    IF seps = {} THEN sourcePath
    ELSE SubSeq(sourcePath, (CHOOSE i \in seps : \A j \in seps : j <= i) + 1,
                Len(sourcePath))

\* backup.go:323: fmt.Sprintf("%s_%s/%s", baseName, timestamp, relPath)
DirObjectName(sourcePath, timestamp, relPath) ==
    <<BaseName(sourcePath), timestamp, relPath>>

\* a walk that visits the last regular file at or after i first
NextRegular_Last(tree, i) ==
    LET later == {j \in i..Len(tree) : tree[j].regular} IN
    IF later = {} THEN 0 ELSE CHOOSE j \in later : \A k \in later : j >= k

\* the walk index of the next regular file at or after i, or 0
NextRegular(tree, i) ==
    LET later == {j \in i..Len(tree) : tree[j].regular} IN
    IF later = {} THEN 0 ELSE CHOOSE j \in later : \A k \in later : j <= k

\* backup.go:309-339: uploadDirectoryToS3, the walk: one regular file per step,
\* in walk order, stopping at the first failure
DirWalk(r) ==
    /\ run[r].pc = "dirwalk"
    /\ LET t == run[r].task
           tree == Tree(t.SourcePath)
           i == NextRegular(tree, run[r].walk)
       IN IF i = 0
          THEN /\ Set(r, AfterUpload([run[r] EXCEPT
                           !.result.S3Path =
                               S3PathOf(t.S3Bucket,
                                   DirObjectName(t.SourcePath,
                                                 run[r].timestamp, Empty)),
                           !.walk = 0]))
               /\ UNCHANGED objects
          ELSE \E putOk \in BOOLEAN :
                 /\ putOk => bucketExists
                 /\ objects' =
                      IF putOk
                      THEN PutObject(objects,
                               DirObjectName(t.SourcePath, run[r].timestamp,
                                             tree[i].rel), now)
                      ELSE objects
                 /\ Set(r, IF putOk
                           THEN [run[r] EXCEPT !.walk = i + 1,
                                               !.trace = Log(r, "put", TRUE)]
                           ELSE DirUploadFailed([run[r] EXCEPT
                                               !.trace = Log(r, "put", FALSE)]))
    /\ UNCHANGED <<now, ledger, files, bucketExists, serviceUp, started, exited, cronVars, procVars>>

\* the sweep with LastModified.Before replaced by "not after"
Expired_Inclusive(objs, t, days) ==
    {o \in objs : o.lastModified <= t - days * DaySeconds}

\* backup.go:359,370: the objects last modified strictly before the cutoff
Expired(objs, t, days) ==
    {o \in objs : o.lastModified < t - days * DaySeconds}

\* a loop that returns at the first RemoveObject that fails
DeleteEvents_StopAtFailure(expired, failed) ==
    [i \in 1..(IF failed = {} THEN Cardinality(expired)
               ELSE Cardinality(expired \ failed) + 1) |->
        Ev("delete", i <= Cardinality(expired \ failed))]

\* backup.go:370-375: one RemoveObject per expired object of the listing,
\* whether or not the ones before it failed (the history shows the
\* successful ones first)
DeleteEvents(expired, failed) ==
    [i \in 1..Cardinality(expired) |->
        Ev("delete", i <= Cardinality(expired \ failed))]

\* backup.go:359-378: the loop of cleanupOldBackups over the objects that
\* the listing delivers, and the return of nil
SweepListed(r, listed) ==
    LET t == run[r].task
        expired == Expired(listed, now, t.CleanupDays)
    IN \E failed \in SUBSET expired :
         /\ objects' = objects \ (expired \ failed)
         /\ Set(r, Finish([run[r] EXCEPT
                 !.sweep = [done |-> TRUE,
                            cutoff |-> now - t.CleanupDays * DaySeconds,
                            before |-> objects,
                            after |-> objects \ (expired \ failed),
                            listed |-> listed],
                 !.trace = Log(r, "cleanup", TRUE)
                           \o DeleteEvents(expired, failed)]))

\* backup.go:144-148,342-379: cleanupOldBackups; its error is only logged
Cleanup(r) ==
    /\ run[r].pc = "cleanup"
    /\ LET t == run[r].task IN
       IF t.S3Endpoint = ""
       THEN /\ Set(r, Finish([run[r] EXCEPT
                                !.trace = Log(r, "cleanup", FALSE)]))
            /\ UNCHANGED objects
       ELSE IF t.S3Bucket = "" \/ ~bucketExists
       THEN /\ Set(r, Finish([run[r] EXCEPT
                                !.trace = Log(r, "cleanup", TRUE)]))
            /\ UNCHANGED objects
       ELSE SweepListed(r, objects)
    /\ UNCHANGED <<now, ledger, files, bucketExists, serviceUp, started, exited, cronVars, procVars>>

\* backup.go:365-368: the listing delivers an entry with object.Err set,
\* which the loop skips; the objects that entry stands for are not among
\* those the loop sees
CleanupListingError(r) ==
    /\ run[r].pc = "cleanup"
    /\ run[r].task.S3Endpoint # ""
    /\ run[r].task.S3Bucket # ""
    /\ bucketExists
    /\ \E listed \in SUBSET objects :
         /\ listed # objects
         /\ SweepListed(r, listed)
    /\ UNCHANGED <<now, ledger, files, bucketExists, serviceUp, started, exited, cronVars, procVars>>

\* The caller has taken the result; the run's slot is free again.
Reset(r) ==
    /\ run[r].pc = "done"
    /\ Set(r, IdleRun)
    /\ UNCHANGED <<now, ledger, files, bucketExists, objects, serviceUp, started, exited, cronVars, procVars>>

\* -------------------------------------------------------- the specifications

Step(r) ==
    \/ DockerDown(r)
    \/ CreateArchive(r)
    \/ SaveRead(r)
    \/ SaveWrite(r)
    \/ Stat(r)
    \/ CountOnly(r)
    \/ S3Check(r)
    \/ S3Make(r)
    \/ S3Put(r)
    \/ UpdateRead(r)
    \/ UpdateWrite(r)
    \/ RemoveArchive(r)
    \/ DirCheck(r)
    \/ DirMake(r)
    \/ DirWalk(r)
    \/ Cleanup(r)
    \/ DockerUp(r)
    \/ Reset(r)

\* ------------------------------------------------------- the cron manager

TaskIds == {1, 12}

\* Recurrence expressions, as strings.Fields splits them: with a seconds
\* field, without one, and the empty expression.
SixFields == <<"0", "30", "2", "*", "*", "*">>

FiveFields == <<"30", "2", "*", "*", "*">>

NoFields == <<>>

Exprs == {SixFields, FiveFields, NoFields}

\* config.Task, the fields the cron manager reads
CronTasks == [TaskID : TaskIds, ScheduleCron : Exprs]

\* cron.New(cron.WithSeconds()): the parser takes exactly six fields
ParseOk(expr) == Len(expr) = 6

\* strings.Join(parts, " ")
RECURSIVE Join(_)
Join(parts) ==
    IF Len(parts) = 0 THEN <<>>
    ELSE IF Len(parts) = 1 THEN <<parts[1]>>
    ELSE <<parts[1], " ">> \o Join(Tail(parts))

DigitChars == <<"0", "1", "2", "3", "4", "5", "6", "7", "8", "9">>

\* %d of a non-negative int
RECURSIVE Decimal(_)
Decimal(n) ==
    IF n < 10 THEN <<DigitChars[n + 1]>>
    ELSE Decimal(n \div 10) \o <<DigitChars[(n % 10) + 1]>>

\* part_001:119,145: fmt.Sprintf("--task-id %d", taskID)
Marker(taskID) == <<"--task-id", " ">> \o Decimal(taskID)

\* part_001:100-105: a six-field expression loses its seconds field
ExternalExpr(expr) == IF Len(expr) = 6 THEN Tail(expr) ELSE expr

\* part_001:96-108: fmt.Sprintf("%s %s --task-id %d", cronExpr, execPath, id)
CronLine(task) ==
    Join(ExternalExpr(task.ScheduleCron))
        \o <<" ", "/usr/bin/backup-server-agent", " ">> \o Marker(task.TaskID)

\* strings.Contains(line, marker)
Contains(line, marker) ==
    \E k \in 0..(Len(line) - Len(marker)) :
        \A i \in 1..Len(marker) : line[k + i] = marker[i]

\* strings.Split(text, "\n") of a text whose lines each end in a newline:
\* the lines, and the empty string after the last newline
Split(text) == Append(text, <<>>)

RECURSIVE Filter(_, _)
\* part_001:118-124,144-151: the lines that do not contain the marker
Filter(lines, marker) ==
    IF Len(lines) = 0 THEN <<>>
    ELSE IF Contains(Head(lines), marker) THEN Filter(Tail(lines), marker)
    ELSE <<Head(lines)>> \o Filter(Tail(lines), marker)

\* part_001:110-131: the text updateSystemCron hands to "crontab -"
UpdatedCrontab(text, task) ==
    Append(Filter(Split(text), Marker(task.TaskID)), CronLine(task))

\* part_001:140-154: the text removeFromSystemCron hands to "crontab -"
CrontabWithout(text, taskID) == Filter(Split(text), Marker(taskID))

\* "crontab -l": a failed read yields no output, and the error is dropped
ReadCrontab(readOk) == IF readOk THEN crontab ELSE <<>>

\* the job table with taskID bound to entryID
WithEntry(tbl, taskID, entryID) ==
    [i \in DOMAIN tbl \cup {taskID} |->
        IF i = taskID THEN entryID ELSE tbl[i]]

\* delete(cm.entries, taskID)
WithoutEntry(tbl, taskID) == [i \in DOMAIN tbl \ {taskID} |-> tbl[i]]

\* cron.Remove(entryID)
CronRemove(engine, entryID) == {e \in engine : e.ID # entryID}

\* AddTask that leaves the recorded trigger in the engine
RetireOld_Keep(engine, tbl, taskID) == engine

\* part_001:51-53: retire the trigger the job table records for the task
RetireOld(engine, tbl, taskID) ==
    IF taskID \in DOMAIN tbl THEN CronRemove(engine, tbl[taskID]) ELSE engine

\* cron.AddFunc: the entry the engine adds
NewEntry(entryID, task) ==
    [ID |-> entryID, TaskID |-> task.TaskID, ScheduleCron |-> task.ScheduleCron]

\* the history of calls: the last call, the crontab it found, and whether
\* the call before it was the same operation on the same task identifier
Called(op, taskID, expr, parsed, readOk, writeOk) ==
    /\ calls' = [op |-> op, id |-> taskID, expr |-> expr, parsed |-> parsed,
                 readOk |-> readOk, writeOk |-> writeOk, before |-> crontab,
                 again |-> (calls.op = op /\ calls.id = taskID)]
    /\ ioFailed' = (ioFailed \/ ~readOk \/ ~writeOk)

NoCall == [op |-> "none", id |-> 0, expr |-> <<>>, parsed |-> FALSE, readOk |-> TRUE,
           writeOk |-> TRUE, before |-> <<>>, again |-> FALSE]

\* part_001:49-81,94-137: AddTask, run to completion
AddTaskCall(task) ==
    /\ cron' = IF ParseOk(task.ScheduleCron)
               THEN RetireOld(cron, entries, task.TaskID)
                        \cup {NewEntry(nextID + 1, task)}
               ELSE RetireOld(cron, entries, task.TaskID)
    /\ IF ParseOk(task.ScheduleCron)
       THEN /\ nextID < MaxEntryID
            /\ nextID' = nextID + 1
            /\ entries' = WithEntry(entries, task.TaskID, nextID + 1)
            /\ \E readOk \in BOOLEAN, writeOk \in BOOLEAN :
                 LET text == UpdatedCrontab(ReadCrontab(readOk), task) IN
                 /\ Len(text) <= MaxLines
                 /\ crontab' = IF writeOk THEN text ELSE crontab
                 /\ Called("add", task.TaskID, task.ScheduleCron, TRUE, readOk,
                           writeOk)
       ELSE /\ UNCHANGED <<nextID, entries, crontab>>
            /\ Called("add", task.TaskID, task.ScheduleCron, FALSE, TRUE, TRUE)

\* part_001:83-92,139-160: RemoveTask, run to completion
RemoveTaskCall(taskID) ==
    /\ cron' = RetireOld(cron, entries, taskID)
    /\ entries' = WithoutEntry(entries, taskID)
    /\ \E readOk \in BOOLEAN, writeOk \in BOOLEAN :
         LET text == CrontabWithout(ReadCrontab(readOk), taskID) IN
         /\ Len(text) <= MaxLines
         /\ crontab' = IF writeOk THEN text ELSE crontab
         /\ Called("remove", taskID, NoFields, TRUE, readOk, writeOk)
    /\ UNCHANGED nextID

\* the loop of LoadTasks has ended (loadIdx = 0)
Loaded == loadIdx = 0

\* part_001:40-47: LoadTasks, one task of the configuration per step
LoadTasks ==
    /\ ~Loaded
    /\ loadIdx' = IF loadIdx = Len(config) THEN 0 ELSE loadIdx + 1
    /\ IF config[loadIdx].ScheduleCron # NoFields
       THEN AddTaskCall(config[loadIdx])
       ELSE UNCHANGED <<entries, cron, nextID, crontab, calls, ioFailed>>
    /\ UNCHANGED <<config, handler, crashed, backupVars, procVars>>

\* an upsert that appends without looking for the identifier
AddOrUpdateTask_Append(tasks, task) == Append(tasks, task)

\* part_003:95-103: AddOrUpdateTask
AddOrUpdateTask(tasks, task) ==
    IF \E i \in 1..Len(tasks) : tasks[i].TaskID = task.TaskID
    THEN LET i == CHOOSE k \in 1..Len(tasks) :
                    /\ tasks[k].TaskID = task.TaskID
                    /\ \A j \in 1..(k - 1) : tasks[j].TaskID # task.TaskID
         IN [tasks EXCEPT ![i] = task]
    ELSE Append(tasks, task)

\* part_002:178-198: setTaskConfig: upsert, save, then AddTask
SetTaskConfig(task) ==
    /\ Loaded
    /\ config' = AddOrUpdateTask(config, task)
    /\ \E saveOk \in BOOLEAN :
         IF saveOk THEN AddTaskCall(task)
         ELSE UNCHANGED <<entries, cron, nextID, crontab, calls, ioFailed>>
    /\ UNCHANGED <<loadIdx, handler, crashed, backupVars, procVars>>

\* part_001:83-92: RemoveTask called on its own
RemoveTask(taskID) ==
    /\ Loaded
    /\ RemoveTaskCall(taskID)
    /\ UNCHANGED <<config, loadIdx, handler, crashed, backupVars, procVars>>

\* a line of the crontab that the agent does not manage
UnmanagedLine == <<"0", " ", "5", " ", "*", " ", "*", " ", "*", " ", "/usr/bin/job">>

Handlers == {"h1", "h2"}

\* a request handler's goroutine: its position and the locals of the call
IdleHandler == [pc |-> "idle", task |-> [TaskID |-> 0, ScheduleCron |-> NoFields],
                entryID |-> 0, text |-> <<>>]

At(h, pc) == ~crashed /\ handler[h].pc = pc

Goto(h, pc) == handler' = [handler EXCEPT ![h].pc = pc]

\* part_002:178-195: a request to setTaskConfig: upsert, save, call AddTask
SetTaskBegin(h, task) ==
    /\ At(h, "idle")
    /\ Loaded
    /\ config' = AddOrUpdateTask(config, task)
    /\ \E saveOk \in BOOLEAN :
         handler' = [handler EXCEPT ![h] =
                        [IdleHandler EXCEPT
                            !.pc = IF saveOk THEN "addLookup" ELSE "idle",
                            !.task = IF saveOk THEN task ELSE IdleHandler.task]]
    /\ UNCHANGED <<entries, cron, nextID, crontab, loadIdx, crashed, calls,
                   ioFailed, backupVars, procVars>>

\* part_001:51: entryID, exists := cm.entries[task.TaskID]
AddLookup(h) ==
    /\ At(h, "addLookup")
    /\ LET id == handler[h].task.TaskID IN
       handler' = [handler EXCEPT
           ![h].pc = IF id \in DOMAIN entries THEN "addRemove" ELSE "addFunc",
           ![h].entryID = IF id \in DOMAIN entries THEN entries[id] ELSE 0]
    /\ UNCHANGED <<entries, cron, nextID, crontab, config, loadIdx, crashed,
                   calls, ioFailed, backupVars, procVars>>

\* part_001:52: cm.cron.Remove(entryID)
AddRemove(h) ==
    /\ At(h, "addRemove")
    /\ cron' = CronRemove(cron, handler[h].entryID)
    /\ Goto(h, "addFunc")
    /\ UNCHANGED <<entries, nextID, crontab, config, loadIdx, crashed, calls,
                   ioFailed, backupVars, procVars>>

\* part_001:56-74: cm.cron.AddFunc, and the return on its error
AddFunc(h) ==
    /\ At(h, "addFunc")
    /\ IF ParseOk(handler[h].task.ScheduleCron)
       THEN /\ nextID < MaxEntryID
            /\ nextID' = nextID + 1
            /\ cron' = cron \cup {NewEntry(nextID + 1, handler[h].task)}
            /\ handler' = [handler EXCEPT ![h].pc = "addStore",
                                          ![h].entryID = nextID + 1]
       ELSE /\ handler' = [handler EXCEPT ![h] = IdleHandler]
            /\ UNCHANGED <<nextID, cron>>
    /\ UNCHANGED <<entries, crontab, config, loadIdx, crashed, calls,
                   ioFailed, backupVars, procVars>>

\* part_001:76: cm.entries[task.TaskID] = entryID
AddStore(h) ==
    /\ At(h, "addStore")
    /\ entries' = WithEntry(entries, handler[h].task.TaskID, handler[h].entryID)
    /\ Goto(h, "addRead")
    /\ UNCHANGED <<cron, nextID, crontab, config, loadIdx, crashed, calls,
                   ioFailed, backupVars, procVars>>

\* part_001:111-114: crontab -l
AddRead(h) ==
    /\ At(h, "addRead")
    /\ \E readOk \in BOOLEAN :
         handler' = [handler EXCEPT ![h].pc = "addWrite",
                                    ![h].text = ReadCrontab(readOk)]
    /\ UNCHANGED <<entries, cron, nextID, crontab, config, loadIdx, crashed,
                   calls, ioFailed, backupVars, procVars>>

\* part_001:117-136: filter, append, crontab -
AddWrite(h) ==
    /\ At(h, "addWrite")
    /\ \E writeOk \in BOOLEAN :
         LET text == UpdatedCrontab(handler[h].text, handler[h].task) IN
         /\ Len(text) <= MaxLines
         /\ crontab' = IF writeOk THEN text ELSE crontab
    /\ handler' = [handler EXCEPT ![h] = IdleHandler]
    /\ UNCHANGED <<entries, cron, nextID, config, loadIdx, crashed, calls,
                   ioFailed, backupVars, procVars>>

\* part_001:83: a call of RemoveTask(taskID)
RemoveBegin(h, taskID) ==
    /\ At(h, "idle")
    /\ Loaded
    /\ handler' = [handler EXCEPT ![h] =
                      [IdleHandler EXCEPT !.pc = "rmLookup",
                                          !.task.TaskID = taskID]]
    /\ UNCHANGED <<entries, cron, nextID, crontab, config, loadIdx, crashed,
                   calls, ioFailed, backupVars, procVars>>

\* part_001:84: entryID, exists := cm.entries[taskID]
RmLookup(h) ==
    /\ At(h, "rmLookup")
    /\ LET id == handler[h].task.TaskID IN
       handler' = [handler EXCEPT
           ![h].pc = IF id \in DOMAIN entries THEN "rmRemove" ELSE "rmRead",
           ![h].entryID = IF id \in DOMAIN entries THEN entries[id] ELSE 0]
    /\ UNCHANGED <<entries, cron, nextID, crontab, config, loadIdx, crashed,
                   calls, ioFailed, backupVars, procVars>>

\* part_001:85: cm.cron.Remove(entryID)
RmRemove(h) ==
    /\ At(h, "rmRemove")
    /\ cron' = CronRemove(cron, handler[h].entryID)
    /\ Goto(h, "rmDelete")
    /\ UNCHANGED <<entries, nextID, crontab, config, loadIdx, crashed, calls,
                   ioFailed, backupVars, procVars>>

\* part_001:86: delete(cm.entries, taskID)
RmDelete(h) ==
    /\ At(h, "rmDelete")
    /\ entries' = WithoutEntry(entries, handler[h].task.TaskID)
    /\ Goto(h, "rmRead")
    /\ UNCHANGED <<cron, nextID, crontab, config, loadIdx, crashed, calls,
                   ioFailed, backupVars, procVars>>

\* part_001:140-141: crontab -l
RmRead(h) ==
    /\ At(h, "rmRead")
    /\ \E readOk \in BOOLEAN :
         handler' = [handler EXCEPT ![h].pc = "rmWrite",
                                    ![h].text = ReadCrontab(readOk)]
    /\ UNCHANGED <<entries, cron, nextID, crontab, config, loadIdx, crashed,
                   calls, ioFailed, backupVars, procVars>>

\* part_001:143-159: filter, crontab -
RmWrite(h) ==
    /\ At(h, "rmWrite")
    /\ \E writeOk \in BOOLEAN :
         LET text == CrontabWithout(handler[h].text, handler[h].task.TaskID) IN
         /\ Len(text) <= MaxLines
         /\ crontab' = IF writeOk THEN text ELSE crontab
    /\ handler' = [handler EXCEPT ![h] = IdleHandler]
    /\ UNCHANGED <<entries, cron, nextID, config, loadIdx, crashed, calls,
                   ioFailed, backupVars, procVars>>

\* the positions at which a goroutine is about to read or write cm.entries
MapWrites == {"addStore", "rmDelete"}

MapAccesses == MapWrites \cup {"addLookup", "rmLookup"}

\* cm.entries is a plain map: a write to it concurrent with another access
\* is a data race, which the runtime may detect and end the process for
\* ("fatal error: concurrent map writes"); the triggers die with the process
MapFault ==
    /\ ~crashed
    /\ \E h \in Handlers : \E g \in Handlers \ {h} :
         /\ handler[h].pc \in MapWrites
         /\ handler[g].pc \in MapAccesses
    /\ crashed' = TRUE
    /\ cron' = {}
    /\ entries' = <<>>
    /\ UNCHANGED <<nextID, crontab, config, loadIdx, handler, calls, ioFailed,
                   backupVars, procVars>>

InitCron ==
    /\ entries = <<>>
    /\ cron = {}
    /\ nextID = 0
    /\ crontab \in {<<>>, <<UnmanagedLine>>}
    /\ config \in {<<>>}
                  \cup {<<t>> : t \in CronTasks}
    /\ loadIdx = IF config = <<>> THEN 0 ELSE 1
    /\ handler = [h \in Handlers |-> IdleHandler]
    /\ crashed = FALSE
    /\ calls = NoCall
    /\ ioFailed = FALSE

\* the cron manager at rest, for the specifications of the backup pipeline
CronAtRest ==
    /\ entries = <<>>
    /\ cron = {}
    /\ nextID = 0
    /\ crontab = <<>>
    /\ config = <<>>
    /\ loadIdx = 0
    /\ handler = [h \in Handlers |-> IdleHandler]
    /\ crashed = FALSE
    /\ calls = NoCall
    /\ ioFailed = FALSE

\* the backup pipeline at rest, for the specifications of the cron manager
BackupAtRest ==
    /\ now = 0
    /\ ledger = <<>>
    /\ files = {}
    /\ bucketExists = FALSE
    /\ objects = {}
    /\ serviceUp = TRUE
    /\ run = [r \in Runs |-> IdleRun]
    /\ started = 0
    /\ exited = FALSE

\* -------------------------------------------------------- the specifications

\* Spec: runs of ExecuteBackup one after another, each by the same caller.
\* main() before flag.Parse
IdleMain ==
    [pc |-> "flags", taskID |-> 0, loaded |-> FALSE, status |-> NULL,
     engine |-> FALSE, server |-> FALSE]

\* no archive has been named and main has not begun
ProcAtRest == names = {} /\ main = IdleMain

Caller == "r1"

Init == InitBackup /\ CronAtRest /\ ProcAtRest

Next ==
    \/ Tick
    \/ \E t \in Tasks : Begin(Caller, t)
    \/ Step(Caller)

Spec == Init /\ [][Next]_vars

\* SpecConc: two runs of ExecuteBackup side by side, as a trigger of the
\* engine and a request to executeTask start them, each in its own goroutine.
\* Both runs archive a source and upload the archive to a bucket that
\* exists, neither stops a service, and each caller starts one run.
ConcRunTasks ==
    {t \in Tasks : t.CreateArchive /\ ~t.IsDockerCompose /\ StorageConfigured(t)}

InitConc == Init /\ bucketExists

NextConc ==
    \/ Tick
    \/ \E r \in Runs, t \in ConcRunTasks : Begin(r, t)
    \/ \E r \in Runs : CreateArchive(r)
    \/ \E r \in Runs : SaveRead(r)
    \/ \E r \in Runs : SaveWrite(r)
    \/ \E r \in Runs : Stat(r)
    \/ \E r \in Runs : S3Check(r)
    \/ \E r \in Runs : S3Put(r)
    \/ \E r \in Runs : UpdateRead(r)
    \/ \E r \in Runs : UpdateWrite(r)
    \/ \E r \in Runs : RemoveArchive(r)
    \/ \E r \in Runs : Cleanup(r)

SpecConc == InitConc /\ [][NextConc]_vars

\* SpecRace: two runs side by side that upload to a bucket that does not
\* exist yet; neither stops a service nor sweeps.
RaceTasks ==
    {t \in Tasks : ~t.IsDockerCompose /\ ~t.CleanupEnabled
                      /\ StorageConfigured(t)}

InitRace == Init /\ ~bucketExists

NextRace ==
    \/ \E r \in Runs, t \in RaceTasks : Begin(r, t)
    \/ \E r \in Runs : CreateArchive(r)
    \/ \E r \in Runs : SaveRead(r)
    \/ \E r \in Runs : SaveWrite(r)
    \/ \E r \in Runs : Stat(r)
    \/ \E r \in Runs : CountOnly(r)
    \/ \E r \in Runs : S3Check(r)
    \/ \E r \in Runs : S3Make(r)
    \/ \E r \in Runs : S3Put(r)
    \/ \E r \in Runs : UpdateRead(r)
    \/ \E r \in Runs : UpdateWrite(r)
    \/ \E r \in Runs : RemoveArchive(r)
    \/ \E r \in Runs : DirCheck(r)
    \/ \E r \in Runs : DirMake(r)
    \/ \E r \in Runs : DirWalk(r)

SpecRace == InitRace /\ [][NextRace]_vars

\* part_000:84-99: on SIGINT or SIGTERM main stops the HTTP server, waiting
\* five seconds at most, and returns; cm.cron.Stop() waits for no running
\* job; the one-shot invocation (part_000:33-53) installs no handler at all.
\* The process ends whatever its runs of ExecuteBackup are doing.
Exit ==
    /\ ~exited
    /\ exited' = TRUE
    /\ UNCHANGED <<now, ledger, files, bucketExists, objects, serviceUp, run,
                   started, cronVars, procVars>>

\* a step of a run, which only a living process takes
Live(r) == ~exited /\ Step(r)

\* SpecShutdown: runs that stop a service, one after another, in a process
\* that a signal may end; a run that can take a step eventually takes it.
ShutdownTasks == {t \in Tasks : GuardAcquired(t)}

NextShutdown ==
    \/ \E t \in ShutdownTasks : ~exited /\ Begin(Caller, t)
    \/ Live(Caller)
    \/ Exit

SpecShutdown == Init /\ [][NextShutdown]_vars /\ WF_vars(Live(Caller))

\* More than a day goes by between two runs.
DayPasses ==
    /\ now <= MaxClock
    /\ now' = now + DaySeconds + 1
    /\ UNCHANGED <<ledger, files, bucketExists, objects, serviceUp, run,
                   started, exited, cronVars, procVars>>

\* SpecRetention: runs one after another, a day or more apart, that archive,
\* upload and sweep the bucket; none stops a service.
RetentionTasks ==
    {t \in Tasks : t.CreateArchive /\ ~t.IsDockerCompose /\ t.CleanupEnabled
                      /\ StorageConfigured(t)}

NextRetention ==
    \/ DayPasses
    \/ \E t \in RetentionTasks : Begin(Caller, t)
    \/ CreateArchive(Caller)
    \/ SaveRead(Caller)
    \/ SaveWrite(Caller)
    \/ Stat(Caller)
    \/ S3Check(Caller)
    \/ S3Make(Caller)
    \/ S3Put(Caller)
    \/ UpdateRead(Caller)
    \/ UpdateWrite(Caller)
    \/ RemoveArchive(Caller)
    \/ Cleanup(Caller)
    \/ Reset(Caller)

SpecRetention == Init /\ [][NextRetention]_vars

\* SpecCron: the cron manager, its calls made one after another.
InitCronSpec == BackupAtRest /\ InitCron /\ ProcAtRest

NextCron ==
    \/ LoadTasks
    \/ \E task \in CronTasks : SetTaskConfig(task)
    \/ \E taskID \in TaskIds : RemoveTask(taskID)

SpecCron == InitCronSpec /\ [][NextCron]_vars

\* SpecCronConc: requests for one task identifier handled concurrently, each
\* in its own goroutine, and none of them under a lock.
ConcTasks == {t \in CronTasks : t.TaskID = 1 /\ t.ScheduleCron # NoFields}

InitCronConc == BackupAtRest /\ CronAtRest /\ ProcAtRest

NextCronConc ==
    \/ \E h \in Handlers, task \in ConcTasks : SetTaskBegin(h, task)
    \/ \E h \in Handlers : AddLookup(h)
    \/ \E h \in Handlers : AddRemove(h)
    \/ \E h \in Handlers : AddFunc(h)
    \/ \E h \in Handlers : AddStore(h)
    \/ \E h \in Handlers : AddRead(h)
    \/ \E h \in Handlers : AddWrite(h)
    \/ \E h \in Handlers : RemoveBegin(h, 1)
    \/ \E h \in Handlers : RmLookup(h)
    \/ \E h \in Handlers : RmRemove(h)
    \/ \E h \in Handlers : RmDelete(h)
    \/ \E h \in Handlers : RmRead(h)
    \/ \E h \in Handlers : RmWrite(h)
    \/ MapFault

SpecCronConc == InitCronConc /\ [][NextCronConc]_vars

\* SpecNaming: the name createArchive computes, for inputs of every kind.
\* A reading of time.Now() is a whole second and a fraction of one.
MaxNamings == 2

NameHosts == {HostId(ConfigServerIP), HostId("")}

NamePaths == { <<"/", "d">>, <<"/", "d", "/", "e">> }

NameFormats == {"tar.gz", "tar"}

ClockReadings == [sec : {0, 1, 59, 60, 3599, 3600}, frac : {0, 1}]

\* backup.go:155-158: the first four statements of createArchive
NameArchive(serverIP, sourcePath, format, reading) ==
    /\ Cardinality(names) < MaxNamings
    /\ names' = names \cup
                  { [serverIP |-> serverIP, sourcePath |-> sourcePath,
                     format |-> format, clock |-> reading,
                     name |-> ArchiveName(serverIP, sourcePath, reading.sec,
                                          format)] }
    /\ UNCHANGED <<main, backupVars, cronVars>>

InitNaming == BackupAtRest /\ CronAtRest /\ ProcAtRest

NextNaming ==
    \E serverIP \in NameHosts, sourcePath \in NamePaths,
       format \in NameFormats, reading \in ClockReadings :
        NameArchive(serverIP, sourcePath, format, reading)

SpecNaming == InitNaming /\ [][NextNaming]_vars

\* part_003:115-122: GetTask, a pointer to (a copy of) the first task with
\* the identifier, nil when there is none
GetTask(tasks, taskID) ==
    IF \E i \in 1..Len(tasks) : tasks[i].TaskID = taskID
    THEN Ptr(tasks[CHOOSE i \in 1..Len(tasks) :
                     /\ tasks[i].TaskID = taskID
                     /\ \A j \in 1..(i - 1) : tasks[j].TaskID # taskID])
    ELSE NULL

\* log.Fatalf and os.Exit: the process ends with the status
Terminate(m, status) ==
    /\ main' = [m EXCEPT !.pc = "exited", !.status = Ptr(status)]
    /\ exited' = TRUE

\* the exit status of a main that does not look at the error
OneShotStatus_Ignored(rec) == 0

\* part_000:46-52: log.Fatalf on an error of ExecuteBackup, os.Exit(0) else
OneShotStatus(rec) == IF rec.err # "nil" THEN 1 ELSE 0

\* values of the flag -task-id: absent (0) or a task identifier
FlagValues == {0} \cup TaskIds

\* part_000:28-31: config.Load fails and main ends
LoadFailed(id) ==
    /\ main.pc = "flags"
    /\ Terminate([main EXCEPT !.taskID = id], 1)
    /\ UNCHANGED <<now, ledger, files, bucketExists, objects, serviceUp, run,
                   started, names, cronVars>>

\* part_000:34-38: a task identifier that GetTask does not find
OneShotMissing(id) ==
    /\ main.pc = "flags"
    /\ id > 0
    /\ GetTask(config, id) = NULL
    /\ Terminate([main EXCEPT !.taskID = id, !.loaded = TRUE], 1)
    /\ UNCHANGED <<now, ledger, files, bucketExists, objects, serviceUp, run,
                   started, names, cronVars>>

\* part_000:34-45: the task is found and main calls ExecuteBackup
OneShotRun(id) ==
    /\ main.pc = "flags"
    /\ id > 0
    /\ GetTask(config, id) # NULL
    /\ Enter(Caller, GetTask(config, id)[1])
    /\ main' = [main EXCEPT !.pc = "oneshot", !.taskID = id, !.loaded = TRUE]
    /\ UNCHANGED <<now, ledger, files, bucketExists, objects, serviceUp,
                   exited, names, cronVars>>

\* the steps of the run that main is waiting for
OneShotStep ==
    /\ main.pc = "oneshot"
    /\ run[Caller].pc # "done"
    /\ Step(Caller)

\* part_000:46-52: ExecuteBackup has returned
OneShotExit ==
    /\ main.pc = "oneshot"
    /\ run[Caller].pc = "done"
    /\ Terminate(main, OneShotStatus(run[Caller]))
    /\ UNCHANGED <<now, ledger, files, bucketExists, objects, serviceUp, run,
                   started, names, cronVars>>

\* part_000:55-59: no task identifier: main creates the cron manager
Daemon ==
    /\ main.pc = "flags"
    /\ main' = [main EXCEPT !.pc = "loading", !.loaded = TRUE]
    /\ UNCHANGED <<names, backupVars, cronVars>>

\* part_000:60-62: cronManager.LoadTasks()
Loading == main.pc = "loading" /\ LoadTasks

\* part_000:63-81: cronManager.Start() and the HTTP server's goroutine
Serve ==
    /\ main.pc = "loading"
    /\ Loaded
    /\ main' = [main EXCEPT !.pc = "serving", !.engine = TRUE,
                            !.server = TRUE]
    /\ UNCHANGED <<names, backupVars, cronVars>>

\* a task of the configuration file: every field that main, ExecuteBackup
\* and LoadTasks read
ConfigTask(id, t) ==
    [f \in DOMAIN t \cup {"ScheduleCron"} |->
        IF f = "ScheduleCron" THEN SixFields
        ELSE IF f = "TaskID" THEN id ELSE t[f]]

OneShotTasks ==
    {t \in Tasks : ~t.CleanupEnabled /\ GuardAcquired(t)}

\* SpecOneShot: one start of the agent's process, with or without -task-id,
\* over a configuration of at most two tasks.
InitOneShot ==
    /\ InitBackup
    /\ ProcAtRest
    /\ entries = <<>>
    /\ cron = {}
    /\ nextID = 0
    /\ crontab = <<>>
    /\ config \in {<<>>}
                  \cup {<<ConfigTask(1, t)>> : t \in OneShotTasks}
                  \cup {<<ConfigTask(12, t), ConfigTask(1, u)>> :
                          t \in OneShotTasks, u \in OneShotTasks}
    /\ loadIdx = IF config = <<>> THEN 0 ELSE 1
    /\ handler = [h \in Handlers |-> IdleHandler]
    /\ crashed = FALSE
    /\ calls = NoCall
    /\ ioFailed = FALSE

NextOneShot ==
    \/ \E id \in FlagValues : LoadFailed(id)
    \/ \E id \in FlagValues : OneShotMissing(id)
    \/ \E id \in FlagValues : OneShotRun(id)
    \/ OneShotStep
    \/ OneShotExit
    \/ Daemon
    \/ Loading
    \/ Serve

SpecOneShot == InitOneShot /\ [][NextOneShot]_vars

\* SpecArchive: the runs of Spec, with what the archive file holds when the
\* deferred Close calls of createArchive fail.
NextArchive ==
    \/ \E t \in Tasks : Begin(Caller, t)
    \/ Step(Caller)
    \/ CreateArchiveUnflushed(Caller)

SpecArchive == Init /\ [][NextArchive]_vars

\* SpecLedger: the runs of Spec, with the reads of backups.json that fail
\* without GetBackupRecords reporting it.
NextLedger ==
    \/ \E t \in Tasks : Begin(Caller, t)
    \/ Step(Caller)
    \/ UpdateReadUnreadable(Caller)

SpecLedger == Init /\ [][NextLedger]_vars

\* an object left in the bucket by a backup of three days ago
OlderObject ==
    [key |-> ArchiveName(HostId(ConfigServerIP), <<"/", "d">>,
                         0 - 3 * DaySeconds, "tar.gz"),
     lastModified |-> 0 - 3 * DaySeconds]

\* SpecSweep: runs that upload a directory and sweep a bucket that holds two
\* old backups; the listing of the sweep may deliver an error entry.
SweepTasks ==
    {t \in Tasks : t.CleanupEnabled /\ ~t.IsDockerCompose /\ ~t.CreateArchive}

InitSweep ==
    /\ now = 0
    /\ ledger = <<>>
    /\ files = {}
    /\ bucketExists = TRUE
    /\ objects = {OldObject, OlderObject}
    /\ serviceUp = TRUE
    /\ run = [r \in Runs |-> IdleRun]
    /\ started = 0
    /\ exited = FALSE
    /\ CronAtRest
    /\ ProcAtRest

NextSweep ==
    \/ Tick
    \/ \E t \in SweepTasks : Begin(Caller, t)
    \/ CountOnly(Caller)
    \/ DirCheck(Caller)
    \/ DirWalk(Caller)
    \/ Cleanup(Caller)
    \/ CleanupListingError(Caller)
    \/ Reset(Caller)

SpecSweep == InitSweep /\ [][NextSweep]_vars

\* SpecGuardConc: two runs side by side, each in its own goroutine (a
\* trigger's closure, part_001:56-69, and a request to executeTask,
\* part_002:239-253), of tasks that stop the same compose project, archive
\* and keep the archive on the host.
GuardTasks ==
    {t \in Tasks : GuardAcquired(t) /\ t.CreateArchive
                      /\ ~StorageConfigured(t) /\ ~t.CleanupEnabled}

NextGuardConc ==
    \/ \E r \in Runs, t \in GuardTasks : Begin(r, t)
    \/ \E r \in Runs : DockerDown(r)
    \/ \E r \in Runs : CreateArchive(r)
    \/ \E r \in Runs : SaveRead(r)
    \/ \E r \in Runs : SaveWrite(r)
    \/ \E r \in Runs : Stat(r)
    \/ \E r \in Runs : DockerUp(r)

SpecGuardConc == Init /\ [][NextGuardConc]_vars

\* ------------------------------------------------- the pipeline, one run

Returned(r) == run[r].pc = "done"

\* the events of the run that are hard failures: the archive build, and the
\* three calls of an upload
HardOps == {"archive", "bucketCheck", "bucketMake", "put"}

HardFailures(r) ==
    {i \in 1..Len(run[r].trace) :
        run[r].trace[i].op \in HardOps /\ ~run[r].trace[i].ok}

RestartOps == {"up", "upLegacy"}

RecordsNamed(records, name) ==
    {i \in 1..Len(records) : records[i].ArchiveName = name}

\* C1: a run that acquired the service guard has attempted the restart
\* exactly once when it returns, whichever way it returns, and never more than
\* once before; a run that did not acquire the guard issues no stop and no
\* restart command at all.
C1_RestartExactlyOnce ==
    \A r \in Runs :
        /\ Count(r, "up") <= 1
        /\ GuardAcquired(run[r].task) /\ Returned(r)
              => Count(r, "up") = 1 /\ Count(r, "down") = 1
        /\ ~GuardAcquired(run[r].task)
              => \A op \in {"down", "downLegacy", "up", "upLegacy"} :
                    ~Did(r, op)

\* a guarded run has returned the archive build failure and has restarted
C1_Witness ==
    /\ Returned(Caller)
    /\ GuardAcquired(run[Caller].task)
    /\ run[Caller].err = "archive"
    /\ Count(Caller, "up") = 1

ArchiveUploadRun(r) ==
    /\ Returned(r)
    /\ run[r].result.Success
    /\ run[r].task.CreateArchive
    /\ StorageConfigured(run[r].task)

OneSuccessRecord(r) ==
    LET named == RecordsNamed(ledger, run[r].archiveName) IN
    /\ Cardinality(named) = 1
    /\ \A i \in named :
          /\ ledger[i].Status = "success"
          /\ ledger[i].S3UploadDate # NULL
          /\ ledger[i].S3Path # Empty

C3_UploadFailureKeepsArchive ==
    \A r \in Runs :
        Returned(r) /\ run[r].err = "upload"
        => /\ ~run[r].result.Success
           /\ run[r].result.Error = "Failed to upload to S3"
           /\ run[r].result.ArchivePath \in files
           /\ ~Did(r, "update") /\ ~Did(r, "remove") /\ ~Did(r, "cleanup")
           /\ ~Did(r, "delete")
           /\ IF Ok(r, "save")
              THEN /\ ledger = Append(run[r].ledger0, run[r].backupRecord)
                   /\ ledger[Len(ledger)].ArchiveName = run[r].archiveName
                   /\ ledger[Len(ledger)].Status = "creating"
                   /\ ledger[Len(ledger)].S3UploadDate = NULL
                   /\ ledger[Len(ledger)].S3Path = Empty
              ELSE ledger = run[r].ledger0

\* the put of the archive failed in a run that wrote its record and whose task
\* enables the cleanup sweep
C3_Witness ==
    /\ Returned(Caller)
    /\ run[Caller].err = "upload"
    /\ Failed(Caller, "put")
    /\ Ok(Caller, "save")
    /\ run[Caller].task.CleanupEnabled

SoftOps == {"down", "downLegacy", "up", "upLegacy", "save", "stat", "update",
            "remove", "cleanup", "delete"}

\* the steps a run of its task goes through when nothing hard fails
AllStepsTaken(r) ==
    LET t == run[r].task IN
    /\ t.CreateArchive => Did(r, "archive") /\ Did(r, "save") /\ Did(r, "stat")
    /\ StorageConfigured(t) => Ok(r, "bucketCheck") /\ Ok(r, "put")
    /\ StorageConfigured(t) /\ t.CreateArchive
          => Did(r, "update") /\ Did(r, "remove")
    /\ t.CleanupEnabled => Did(r, "cleanup")
    /\ GuardAcquired(t) => Did(r, "down") /\ Did(r, "up")

\* C4: a run returns a failure exactly when its archive build or one of its
\* upload calls failed; that failure is the only one and nothing but the
\* restart follows it; whatever soft failures there were, a run without a hard
\* failure went through all the steps of its task and returned success.
C4_OnlyHardFailuresFail ==
    \A r \in Runs :
        Returned(r)
        => LET hard == HardFailures(r)
               tr == run[r].trace
           IN /\ (run[r].err # "nil") <=> (hard # {})
              /\ run[r].result.Success <=> (run[r].err = "nil")
              /\ run[r].err = "archive" <=> Failed(r, "archive")
              /\ Cardinality(hard) <= 1
              /\ \A i \in hard : \A j \in (i + 1)..Len(tr) :
                    tr[j].op \in RestartOps
              /\ hard = {} => AllStepsTaken(r)

SoftFailures(r) ==
    {run[r].trace[i].op : i \in {j \in 1..Len(run[r].trace) :
                                    ~run[r].trace[j].ok}}

\* a run returned success although its stop, its Ledger write, its stat, its
\* Ledger update, its removal and its restart all failed
C4_Witness ==
    /\ Returned(Caller)
    /\ run[Caller].result.Success
    /\ {"down", "downLegacy", "save", "stat", "update", "remove",
        "up", "upLegacy"} \subseteq SoftFailures(Caller)

\* C5: a run that acquired the service guard has issued the restart before
\* it checks, writes to or deletes from destination storage.
C5_RestartBeforeUpload ==
    \A r \in Runs :
        run[r].guarded
        /\ (Did(r, "bucketCheck") \/ Did(r, "put") \/ Did(r, "cleanup"))
        => Did(r, "up")

\* ------------------------------------------- the cron manager, sequentially

\* the live triggers of a task identifier
Triggers(taskID) == {e \in cron : e.TaskID = taskID}

\* the positions of the crontab lines that contain the identifier's marker
MarkedLines(taskID) ==
    {k \in 1..Len(crontab) : Contains(crontab[k], Marker(taskID))}

\* the last two calls were AddTask for the same task identifier
AddedTwice == calls.op = "add" /\ calls.again

OneTriggerOneLine(taskID) ==
    /\ Cardinality(Triggers(taskID)) = 1
    /\ Cardinality(MarkedLines(taskID)) = 1

\* C6 as stated: at most one live trigger per task identifier, and after
\* two AddTask calls in succession for one identifier exactly one live
\* trigger and exactly one crontab line containing its marker.
C6_Original ==
    /\ \A i \in TaskIds : Cardinality(Triggers(i)) <= 1
    /\ AddedTwice => OneTriggerOneLine(calls.id)

\* C6, amended: at most one live trigger per task identifier after any
\* sequence of calls made one after another; after two AddTask calls in
\* succession for one identifier, the last with an expression the engine
\* accepted and a crontab write that succeeded, exactly one live trigger
\* and exactly one crontab line containing its marker.
C6_OneTriggerPerTask ==
    /\ \A i \in TaskIds : Cardinality(Triggers(i)) <= 1
    /\ (AddedTwice /\ calls.parsed /\ calls.writeOk)
           => OneTriggerOneLine(calls.id)

C6_Witness ==
    /\ AddedTwice /\ calls.parsed /\ calls.writeOk
    /\ Contains(calls.before, <<CronLine([TaskID |-> calls.id,
                                          ScheduleCron |-> SixFields])>>)
    /\ OneTriggerOneLine(calls.id)

\* the line is the cron line of the task identifier, for some expression
Belongs(line, taskID) ==
    \E e \in Exprs : line = CronLine([TaskID |-> taskID, ScheduleCron |-> e])

IdsInTable == DOMAIN entries

IdsWithTrigger == {e.TaskID : e \in cron}

IdsWithLine ==
    {i \in TaskIds : \E k \in 1..Len(crontab) : Belongs(crontab[k], i)}

\* C8: when no crontab read or write has failed, the identifiers in the job
\* table, those with a live trigger and those with a crontab line are the
\* same set, each with exactly one trigger and exactly one line.
C8_TableEngineCrontabCoincide ==
    ~ioFailed =>
        /\ IdsInTable = IdsWithTrigger
        /\ IdsWithTrigger = IdsWithLine
        /\ \A i \in IdsInTable :
              /\ Cardinality(Triggers(i)) = 1
              /\ Cardinality({k \in 1..Len(crontab) :
                                 Belongs(crontab[k], i)}) = 1

\* the lines of a crontab text that are neither blank nor the task's own
Foreign(text, taskID) ==
    SelectSeq(text, LAMBDA l : l # <<>> /\ ~Belongs(l, taskID))

\* C9: a synchronisation for task identifier i that read and wrote the
\* crontab leaves every line of another task identifier, and every
\* unmanaged line, in place: the same lines in the same order.
C9_OnlyOwnLinesRemoved ==
    (calls.op # "none" /\ calls.readOk /\ calls.writeOk)
        => Foreign(crontab, calls.id) = Foreign(calls.before, calls.id)

\* ------------------------------------------- the cron manager, concurrently

AllIdle == \A h \in Handlers : handler[h].pc = "idle"

\* C7: under any interleaving of AddTask and RemoveTask calls for one task
\* identifier the engine never holds two live triggers for it, and once the
\* calls have returned every live trigger is the one the job table records.
C7_NoDuplicateNoOrphan ==
    /\ \A i \in TaskIds : Cardinality(Triggers(i)) <= 1
    /\ AllIdle =>
          \A e \in cron :
              e.TaskID \in DOMAIN entries /\ entries[e.TaskID] = e.ID

\* --------------------------------------------------- the ledger, concurrently

\* the records of a ledger text with the archive name and the status
RecordsOf(text, name, status) ==
    SeqCount(text, LAMBDA rec : rec.ArchiveName = name /\ rec.Status = status)

ArchiveNames == {ledger[i].ArchiveName : i \in 1..Len(ledger)}

\* C10: no step of any run takes a record out of the persisted ledger, and
\* none takes a record's "success" status back.
C10_NoRecordLost ==
    [][\A name \in ArchiveNames :
          /\ Cardinality(RecordsNamed(ledger', name))
                >= Cardinality(RecordsNamed(ledger, name))
          /\ RecordsOf(ledger', name, "success")
                >= RecordsOf(ledger, name, "success")]_vars

\* ------------------------------------------------------ the cleanup sweep

Swept(r) == run[r].sweep.done

\* the objects of the sweep's listing last modified strictly before its cutoff
PastCutoff(r) ==
    {o \in run[r].sweep.before : o.lastModified < run[r].sweep.cutoff}

DeletesOk(r) ==
    \A i \in 1..Len(run[r].trace) :
        run[r].trace[i].op = "delete" => run[r].trace[i].ok

StorageOps == {"bucketCheck", "bucketMake", "put", "delete"}

\* a returned run of a task that archives, does not sweep and has no
\* destination storage configured
LocalOnlyRun(r) ==
    /\ Returned(r)
    /\ run[r].task.CreateArchive
    /\ ~run[r].task.CleanupEnabled
    /\ ~StorageConfigured(run[r].task)

\* the run succeeded without touching the bucket, added one record, still
\* "creating", to the Ledger it found, and left its archive on disk
LocalOnlyOutcome(r) ==
    /\ run[r].result.Success
    /\ \A op \in StorageOps : ~Did(r, op)
    /\ ledger = Append(run[r].ledger0, run[r].backupRecord)
    /\ ledger[Len(ledger)].ArchiveName = run[r].archiveName
    /\ ledger[Len(ledger)].Status = "creating"
    /\ run[r].result.ArchivePath \in files

C13_CreateRaceTolerated ==
    \A r \in Runs :
        run[r].raced =>
            /\ run[r].err \notin {"upload", "dirupload"}
            /\ Returned(r) => Did(r, "put")

\* ------------------------------------------- the storage entry points' order

\* the event at position i of the run's history comes straight after the
\* entry point's existence check: nothing but the creation of the bucket and
\* the entry point's own object operations lie between
CheckedBefore(r, i, own) ==
    \E j \in 1..(i - 1) :
        /\ run[r].trace[j] = Ev("bucketCheck", TRUE)
        /\ \A k \in (j + 1)..(i - 1) :
              run[r].trace[k].op \in {"bucketMake"} \cup own

\* C14: in the archive upload, the directory upload and the cleanup sweep the
\* bucket existence check comes before the entry point's first object write,
\* list or delete.
C14_CheckBeforeObjectOps ==
    \A r \in Runs : \A i \in 1..Len(run[r].trace) :
        /\ run[r].trace[i].op = "put" => CheckedBefore(r, i, {"put"})
        /\ run[r].trace[i] = Ev("cleanup", TRUE)
              => CheckedBefore(r, i, {})
        /\ run[r].trace[i].op = "delete"
              => CheckedBefore(r, i, {"cleanup", "delete"})

\* ------------------------------------------------ runs that do not archive

\* a run in progress, or returned, of a task with archiving disabled
DirectRun(r) == run[r].pc # "idle" /\ ~run[r].task.CreateArchive

\* C15: from its start to its return a run with archiving disabled neither
\* writes nor updates a Ledger record, and the persisted Ledger is what it
\* was when the run began, whether the directory upload is skipped,
\* succeeds or fails.
C15_DirectRunLeavesLedger ==
    \A r \in Runs :
        DirectRun(r) =>
            /\ ~Did(r, "save") /\ ~Did(r, "update")
            /\ ledger = run[r].ledger0

\* a run with archiving disabled has uploaded the directory and returned,
\* the Ledger holding the record of an earlier run
C15_Witness ==
    /\ DirectRun(Caller)
    /\ Returned(Caller)
    /\ Ok(Caller, "put")
    /\ Len(ledger) > 0

\* ------------------------------------------------ tasks with no recurrence

\* the task identifier has no trigger, no job-table entry and no crontab line
Inert(taskID) ==
    /\ Triggers(taskID) = {}
    /\ taskID \notin DOMAIN entries
    /\ \A k \in 1..Len(crontab) : ~Belongs(crontab[k], taskID)

\* C16: once the startup load has ended, a configured task whose recurrence
\* expression is empty, and whose upsert with it was the last call of AddTask, has
\* no live trigger, no job-table entry and no crontab line, no crontab
\* read or write having failed.
C16_EmptyExpressionInert ==
    (Loaded /\ ~ioFailed /\ calls.op = "add" /\ calls.expr = NoFields) =>
        \A i \in 1..Len(config) :
            (config[i].TaskID = calls.id /\ config[i].ScheduleCron = NoFields)
                => Inert(calls.id)

\* ------------------------------------------------------------- RemoveTask

\* the call in the step read and wrote the crontab
SyncedStep == calls'.readOk /\ calls'.writeOk

\* after the step the identifier has no trigger, no job-table entry and no
\* crontab line containing its marker
RemovedAfter(taskID) ==
    /\ \A e \in cron' : e.TaskID # taskID
    /\ taskID \notin DOMAIN entries'
    /\ \A k \in 1..Len(crontab') : ~Contains(crontab'[k], Marker(taskID))

\* the call before the step was RemoveTask for the identifier, and no
\* crontab read or write had failed
RemovedBefore(taskID) ==
    calls.op = "remove" /\ calls.id = taskID /\ ~ioFailed

\* C17: a RemoveTask(id) that synchronised the crontab leaves id with no
\* live trigger, no job-table entry and no crontab line containing its
\* marker; when id was not in the job table it leaves the job table and
\* the engine as they were; and repeated straight after a RemoveTask(id)
\* it changes nothing.
C17_RemoveTaskEffect ==
    [][\A id \in TaskIds :
          (RemoveTask(id) /\ SyncedStep) =>
              /\ RemovedAfter(id)
              /\ id \notin DOMAIN entries
                    => entries' = entries /\ cron' = cron
              /\ RemovedBefore(id)
                    => entries' = entries /\ cron' = cron
                          /\ crontab' = crontab]_vars

\* ------------------------------------------------ the service guard, at exit

\* C18: a run that has issued the stop of the service eventually issues its
\* restart, a shutdown signal received meanwhile notwithstanding.
C18_StopLeadsToRestart ==
    \A r \in Runs : Did(r, "down") ~> Did(r, "up")

\* ------------------------------------------------- the ledger and the bucket

\* the destination paths at which the bucket holds an object
StoredPaths == {S3PathOf("bk", o.key) : o \in objects}

\* C19: every Ledger record with status "success" names a destination path
\* at which the bucket holds the backup object.
C19_SuccessRecordsHaveObjects ==
    \A i \in 1..Len(ledger) :
        ledger[i].Status = "success" => ledger[i].S3Path \in StoredPaths

\* ------------------------------------------------------------ archive names

\* C20: no two Ledger records share an archive name, and no two runs build
\* their archive under the same name, hence at the same local path.
C20_ArchiveNamesUnique ==
    /\ \A i \in 1..Len(ledger) : \A j \in 1..Len(ledger) :
          i # j => ledger[i].ArchiveName # ledger[j].ArchiveName
    /\ \A r \in Runs : \A q \in Runs \ {r} :
          run[r].archiveName # Empty
              => run[r].archiveName # run[q].archiveName

\* ------------------------------------------------------- the archive's name

\* two invocations for the same host, source path and format
SameSource(a, b) ==
    /\ a.serverIP = b.serverIP
    /\ a.sourcePath = b.sourcePath
    /\ a.format = b.format

\* C21: the archive name is a function of the host identifier, the source
\* path, the format and the clock reading truncated to seconds: invocations
\* that agree on all four get the same name, and invocations for the same
\* host, path and format whose readings are one second apart get different
\* names.
C21_NameDeterminedBySecond ==
    \A a \in names : \A b \in names :
        SameSource(a, b) =>
            /\ a.clock.sec = b.clock.sec => a.name = b.name
            /\ a.clock.sec - b.clock.sec = 1 => a.name # b.name

\* two invocations for one source, a second apart at different fractions of
\* their seconds, the later one in the next minute
C21_Witness ==
    \E a \in names : \E b \in names :
        /\ SameSource(a, b)
        /\ a.clock.sec = 59 /\ b.clock.sec = 60
        /\ a.clock.frac # b.clock.frac
        /\ a.name # b.name

\* ------------------------------------------------------ the one-shot start

\* the process was started with a task identifier and read its configuration
OneShot == main.taskID > 0 /\ main.loaded

Resolves == GetTask(config, main.taskID) # NULL

\* C22: a process started with a positive task identifier makes exactly one
\* run of ExecuteBackup when the identifier is in the configuration and none
\* when it is not, in which case it ends at once with a failure status; it
\* never starts the trigger engine or the HTTP server; and it ends with a
\* failure status when the run returned an error and with status 0 otherwise.
C22_OneShotRunsOnceAndExits ==
    OneShot =>
        /\ ~main.engine /\ ~main.server /\ cron = {} /\ entries = <<>>
        /\ started = (IF Resolves THEN 1 ELSE 0)
        /\ ~Resolves => main.pc = "exited" /\ main.status = Ptr(1)
        /\ main.pc = "exited" /\ Resolves =>
              /\ run[Caller].pc = "done"
              /\ main.status = Ptr(IF run[Caller].err # "nil" THEN 1 ELSE 0)

\* a one-shot process that ended after a run that failed to upload
C22_Witness ==
    /\ OneShot /\ Resolves
    /\ main.pc = "exited"
    /\ main.status = Ptr(1)
    /\ run[Caller].err = "upload"
    /\ main.taskID = 12

\* ------------------------------------------------- the configuration store

UniqueIds(tasks) ==
    \A i \in 1..Len(tasks) : \A j \in 1..Len(tasks) :
        tasks[i].TaskID = tasks[j].TaskID => i = j

\* what an upsert of the task does to the task list
Upserted(task) ==
    /\ IF \E i \in 1..Len(config) : config[i].TaskID = task.TaskID
       THEN /\ Len(config') = Len(config)
            /\ \E i \in 1..Len(config) :
                 /\ config[i].TaskID = task.TaskID
                 /\ config'[i] = task
                 /\ \A j \in 1..Len(config) : j # i => config'[j] = config[j]
       ELSE /\ Len(config') = Len(config) + 1
            /\ config'[Len(config')] = task
            /\ \A j \in 1..Len(config) : config'[j] = config[j]
    /\ UniqueIds(config) => UniqueIds(config')
    /\ GetTask(config', task.TaskID) = Ptr(task)

\* C23: every change of the task list is the upsert of the task the request
\* carried: a task with the identifier is replaced where it stands and the
\* list keeps its length, otherwise the task is appended; every other task
\* stays as it was; unique identifiers stay unique; and GetTask of the
\* identifier then returns the upserted definition.
C23_UpsertByIdentifier ==
    [][\E task \in CronTasks :
          /\ Upserted(task)
          /\ calls' # calls =>
                calls'.id = task.TaskID /\ calls'.expr = task.ScheduleCron
      ]_config

\* two tasks are configured, the second has been appended and scheduled, and
\* the last upsert replaced the first where it stood
C23_Witness ==
    /\ Len(config) = 2
    /\ UniqueIds(config)
    /\ config[2].TaskID \in DOMAIN entries
    /\ calls.op = "add"
    /\ calls.id = config[1].TaskID
    /\ GetTask(config, calls.id) = Ptr([TaskID |-> calls.id,
                                        ScheduleCron |-> calls.expr])

\* ------------------------------------------------ the archive and the count

RegularFiles(sourcePath) ==
    {Tree(sourcePath)[i].rel :
        i \in {j \in 1..Len(Tree(sourcePath)) : Tree(sourcePath)[j].regular}}

\* the run has counted the files
Counted(r) == run[r].pc \notin {"idle", "stop", "archive", "save", "saveWrite",
                                "stat", "count"}

\* C24: when createArchive has returned without an error, the archive holds
\* every regular file of the source tree under its path relative to the
\* source; and the file count of a run that has counted, with or without an
\* archive, is the number of regular files in the tree.
C24_ArchiveHoldsEveryRegularFile ==
    \A r \in Runs :
        /\ Ok(r, "archive") =>
              run[r].archived = RegularFiles(run[r].task.SourcePath)
        /\ Counted(r) /\ ~Failed(r, "archive") =>
              run[r].result.FilesCount
                  = Cardinality(RegularFiles(run[r].task.SourcePath))

\* ------------------------------------------------ the archive build fails

\* what a run does after a successful archive build
AfterArchiveOps == {"save", "stat", "bucketCheck", "bucketMake", "put",
                    "update", "remove", "cleanup", "delete"}

\* the run took a step and its archive build has failed
FailedBuildStep(r) == run'[r] # run[r] /\ Failed(r, "archive")'

\* C25: a run whose archive build failed writes no Ledger record, uploads
\* nothing, removes no local file and does not sweep; it returns the error,
\* with a non-empty error text, no success and an empty archive path; and no
\* step of it removes a file under /tmp, the partly written archive included.
C25_BuildFailureEndsRun ==
    /\ [](\A r \in Runs : Failed(r, "archive") =>
            /\ \A op \in AfterArchiveOps : ~Did(r, op)
            /\ ledger = run[r].ledger0
            /\ Returned(r) =>
                  /\ run[r].err # "nil"
                  /\ run[r].result.Error # ""
                  /\ ~run[r].result.Success
                  /\ run[r].result.ArchivePath = Empty)
    /\ [][\A r \in Runs : FailedBuildStep(r) =>
              /\ files \subseteq files'
              /\ ledger' = ledger
              /\ objects' = objects]_vars

\* a run that stopped the service has returned after its archive build
\* failed, and the partly written archive is still under /tmp
C25_Witness ==
    /\ Returned(Caller)
    /\ Failed(Caller, "archive")
    /\ run[Caller].guarded
    /\ started = 1
    /\ files # {}
    /\ ledger = <<>>

\* ------------------------------------------------------ the order of steps

UploadOps == {"bucketCheck", "bucketMake", "put"}

\* some event before the i-th of the run's history is the given one
Earlier(r, i, ev) == \E j \in 1..(i - 1) : run[r].trace[j] = ev

\* some event before the i-th is of the given operation
EarlierOp(r, i, op) == \E j \in 1..(i - 1) : run[r].trace[j].op = op

\* C26: the steps of a run come in a fixed order. The record with status
\* "creating" is written after the archive build has succeeded and before
\* any call of the upload; the record's update to "success" comes after the
\* put has succeeded and before the removal of the local archive; the
\* removal comes only after a successful put, and after the update; the
\* sweep comes only when no call of the upload has failed before it, be it
\* that the upload succeeded or that none was made.
C26_StepsInOrder ==
    \A r \in Runs : \A i \in 1..Len(run[r].trace) :
        LET op == run[r].trace[i].op IN
        /\ op = "save" =>
              /\ Earlier(r, i, Ev("archive", TRUE))
              /\ \A u \in UploadOps : ~EarlierOp(r, i, u)
        /\ op \in UploadOps /\ EarlierOp(r, i, "archive") =>
              EarlierOp(r, i, "save")
        /\ op = "update" =>
              /\ Earlier(r, i, Ev("put", TRUE))
              /\ ~EarlierOp(r, i, "remove")
        /\ op = "remove" =>
              /\ Earlier(r, i, Ev("put", TRUE))
              /\ EarlierOp(r, i, "update")
        /\ op = "cleanup" =>
              \A u \in UploadOps : ~Earlier(r, i, Ev(u, FALSE))

\* a run has built, recorded, uploaded into a bucket it created, updated,
\* removed and swept, each step succeeding
C26_Witness ==
    /\ Returned(Caller)
    /\ \A op \in {"archive", "save", "bucketMake", "put", "update", "remove",
                  "cleanup"} : Ok(Caller, op)

\* ------------------------------------------------- the compose commands

\* the legacy command of a primary compose command
LegacyOf(op) == op \o "Legacy"

\* in the run's history the legacy command follows the primary command at
\* once when that one failed, and is found nowhere else
LegacyIffPrimaryFailed(r, op) ==
    LET tr == run[r].trace IN
    /\ \A i \in 1..Len(tr) :
          tr[i] = Ev(op, FALSE) => i < Len(tr) /\ tr[i + 1].op = LegacyOf(op)
    /\ \A i \in 1..Len(tr) :
          tr[i].op = LegacyOf(op) => i > 1 /\ tr[i - 1] = Ev(op, FALSE)

BothFailed(r, op) == Failed(r, op) /\ Failed(r, LegacyOf(op))

\* C27: for the stop and for the restart alike the legacy compose command is
\* run exactly when the primary one failed. A run whose two stop commands
\* both failed goes on to the archive step (or to the count) and attempts the
\* restart before it returns; and the restart, failing or not, changes
\* neither the result nor the error that the run returns.
C27_LegacyFallbackAndProgress ==
    /\ [](\A r \in Runs :
            /\ LegacyIffPrimaryFailed(r, "down")
            /\ LegacyIffPrimaryFailed(r, "up")
            /\ BothFailed(r, "down") =>
                  /\ run[r].task.CreateArchive =>
                        run[r].pc = "archive" \/ Did(r, "archive")
                  /\ Returned(r) => Did(r, "up"))
    /\ [][\A r \in Runs : run[r].pc = "restart" =>
              /\ run'[r].result = run[r].result
              /\ run'[r].err = run[r].err]_vars

\* a run whose stop commands both failed has archived and has returned
\* success after both restart commands failed too
C27_Witness ==
    /\ Returned(Caller)
    /\ BothFailed(Caller, "down")
    /\ Ok(Caller, "archive")
    /\ BothFailed(Caller, "up")
    /\ run[Caller].result.Success
    /\ run[Caller].err = "nil"

\* ------------------------------------------------- the update of a record

\* the fields of a BackupRecord that UpdateBackupRecord assigns
UpdatedFields == {"S3Path", "S3UploadDate", "Status"}

\* between the two ledgers only the first record of the name differs, and
\* only in the fields that the update assigns
OnlyFirstMatchChanged(old, new, name) ==
    /\ Len(new) = Len(old)
    /\ \E first \in RecordsNamed(old, name) :
          /\ \A j \in RecordsNamed(old, name) : first <= j
          /\ \A i \in 1..Len(old) : i # first => new[i] = old[i]
          /\ \A f \in DOMAIN old[first] \ UpdatedFields :
                new[first][f] = old[first][f]

\* the step in which a run's UpdateBackupRecord returns
UpdateReturns(r) == run[r].pc \in {"update", "updateWrite"} /\ run'[r].pc = "remove"

\* C28: a call of UpdateBackupRecord leaves the Ledger as it was when no
\* record has the archive name, and then returns no error unless the write
\* failed; otherwise it changes at most the S3 path, the upload timestamp and
\* the status of the first record with the name: every other field of that
\* record, the size in MB among them, and every other record stay as they
\* were.
C28_UpdateTouchesFirstMatchOnly ==
    [][\A r \in Runs : UpdateReturns(r) =>
          IF RecordsNamed(ledger, run[r].archiveName) = {}
          THEN ledger' = ledger
          ELSE \/ ledger' = ledger
               \/ OnlyFirstMatchChanged(ledger, ledger', run[r].archiveName)
      ]_vars

\* ------------------------------------------------ the line in the crontab

\* the line begins with the prefix
StartsWith(line, prefix) ==
    /\ Len(prefix) <= Len(line)
    /\ \A i \in 1..Len(prefix) : line[i] = prefix[i]

\* the fields of the expression that the crontab line is to carry
SecondlessFields(expr) == IF Len(expr) = 6 THEN SubSeq(expr, 2, 6) ELSE expr

\* the last call was AddTask with the expression, and it read and wrote the
\* crontab without a failure
AddedWith(expr) ==
    /\ calls.op = "add"
    /\ calls.expr = expr
    /\ calls.readOk /\ calls.writeOk

\* the identifier of the last call has a live trigger of the expression and
\* a crontab line of its own that starts with the seconds-less fields
InstalledWithLine(expr) ==
    /\ \E e \in cron : e.TaskID = calls.id /\ e.ScheduleCron = expr
    /\ \E k \in 1..Len(crontab) :
          /\ Contains(crontab[k], Marker(calls.id))
          /\ StartsWith(crontab[k], Join(SecondlessFields(expr)))

\* C29: after AddTask with a six-field expression the task has a trigger and
\* its crontab line starts with fields 2 to 6; after AddTask with a
\* five-field expression the task has a trigger too and its crontab line
\* starts with the five fields as they are.
C29_LineCarriesSecondlessExpression ==
    \A expr \in {SixFields, FiveFields} :
        AddedWith(expr) => InstalledWithLine(expr)

\* --------------------------------------------------- the directory upload

\* the puts of the run that succeeded so far
PutsOk(r) ==
    Cardinality({i \in 1..Len(run[r].trace) : run[r].trace[i] = Ev("put", TRUE)})

\* the relative paths of the regular files of the tree, in walk order
RegularInOrder(sourcePath) ==
    LET tree == Tree(sourcePath)
        idx == {i \in 1..Len(tree) : tree[i].regular}
    IN [n \in 1..Cardinality(idx) |->
           tree[CHOOSE i \in idx :
                    Cardinality({j \in idx : j <= i}) = n].rel]

\* the key under which the run uploads the n-th regular file
DirKey(r, n) ==
    DirObjectName(run[r].task.SourcePath, run[r].timestamp,
                  RegularInOrder(run[r].task.SourcePath)[n])

Keys(objs) == {o.key : o \in objs}

\* a step of the walk of uploadDirectoryToS3
WalkStep(r) == run[r].pc = "dirwalk" /\ run'[r] # run[r]

\* C30: the directory upload puts one file per step, in walk order: the
\* step after n successful puts either puts the file that is next in the
\* walk and nothing else, or fails to put it, or finds no file left. A failed
\* put ends the upload: the run puts nothing after it, leaves the bucket as
\* the earlier puts made it, and returns the error as its failure.
C30_DirectoryUploadFailsFast ==
    /\ [](\A r \in Runs : ~run[r].task.CreateArchive =>
            /\ \A i \in 1..Len(run[r].trace) :
                  run[r].trace[i] = Ev("put", FALSE) =>
                      \A j \in (i + 1)..Len(run[r].trace) :
                          run[r].trace[j].op \notin UploadOps
            /\ Failed(r, "put") =>
                  /\ run[r].pc \in {"restart", "done"}
                  /\ run[r].err = "dirupload"
                  /\ run[r].result.Error # ""
                  /\ ~run[r].result.Success
                  /\ \A n \in 1..PutsOk(r) : DirKey(r, n) \in Keys(objects))
    /\ [][\A r \in Runs : WalkStep(r) =>
            LET n == PutsOk(r)
                inOrder == RegularInOrder(run[r].task.SourcePath)
            IN \/ /\ n < Len(inOrder)
                  /\ PutsOk(r)' = n + 1
                  /\ objects' = PutObject(objects, DirKey(r, n + 1), now)
               \/ /\ n < Len(inOrder)
                  /\ Failed(r, "put")'
                  /\ objects' = objects
               \/ /\ n = Len(inOrder)
                  /\ run'[r].trace = run[r].trace
                  /\ objects' = objects]_vars

\* a directory upload has put its first file, failed to put the second, and
\* the run has returned the failure with the first object in the bucket
C30_Witness ==
    /\ Returned(Caller)
    /\ ~run[Caller].task.CreateArchive
    /\ PutsOk(Caller) = 1
    /\ Failed(Caller, "put")
    /\ run[Caller].err = "dirupload"
    /\ DirKey(Caller, 1) \in Keys(objects)
    /\ DirKey(Caller, 2) \notin Keys(objects)

\* ------------------------------------------- failures within the sweep

\* the RemoveObject calls of the run's sweep
DeleteAttempts(r) ==
    Cardinality({i \in 1..Len(run[r].trace) : run[r].trace[i].op = "delete"})

DeletesFailed(r) ==
    Cardinality({i \in 1..Len(run[r].trace) :
                    run[r].trace[i] = Ev("delete", FALSE)})

\* the objects the sweep's listing delivered that were last modified
\* strictly before its cutoff
ListedExpired(r) ==
    {o \in run[r].sweep.listed : o.lastModified < run[r].sweep.cutoff}

\* C31: a sweep attempts the deletion of every expired object its listing
\* delivered, whether or not a deletion failed or the listing delivered an
\* error entry; the objects it did not delete are as many as the deletions
\* that failed; and it reports success: the run logs no cleanup failure and
\* returns success.
C31_SweepGoesOnAfterFailure ==
    \A r \in Runs :
        Swept(r) =>
            /\ DeleteAttempts(r) = Cardinality(ListedExpired(r))
            /\ run[r].sweep.before \ run[r].sweep.after \subseteq ListedExpired(r)
            /\ Cardinality(ListedExpired(r) \cap run[r].sweep.after)
                  = DeletesFailed(r)
            /\ Ok(r, "cleanup") /\ ~Failed(r, "cleanup")
            /\ run[r].result.Success /\ run[r].err = "nil"

\* a sweep listed two expired objects, failed to delete one of them and
\* deleted the other, while the listing held back a third object
C31_Witness ==
    /\ Swept(Caller)
    /\ Cardinality(ListedExpired(Caller)) = 2
    /\ DeletesFailed(Caller) = 1
    /\ DeleteAttempts(Caller) = 2
    /\ run[Caller].sweep.listed # run[Caller].sweep.before
    /\ Returned(Caller)

\* --------------------------------------------- the statuses of the Ledger

\* the upload fields of a record agree with its status
StatusConsistent(rec) ==
    /\ rec.Status \in {"creating", "success"}
    /\ rec.Status = "success" =>
          rec.S3UploadDate # NULL /\ rec.S3Path # Empty
    /\ rec.Status = "creating" =>
          rec.S3UploadDate = NULL /\ rec.S3Path = Empty

\* the step turns the i-th record, a success, into a record of the same
\* archive that is being created
Reverted(i) ==
    /\ ledger[i].Status = "success"
    /\ i <= Len(ledger')
    /\ ledger'[i].ArchiveName = ledger[i].ArchiveName
    /\ ledger'[i].Status = "creating"

\* C32: in every state of backups.json a record with status "success" has
\* an upload timestamp and a destination path, a record with status
\* "creating" has neither, there is no third status, and no write of the
\* file turns a record with status "success" back into "creating".
C32_LedgerStatusConsistent ==
    /\ [](\A i \in 1..Len(ledger) : StatusConsistent(ledger[i]))
    /\ [][\A i \in 1..Len(ledger) : ~Reverted(i)]_vars

\* --------------------------------------------- the guard, concurrently

\* the step in which a restart command of the run starts the service
Starts(r) ==
    /\ run[r].pc = "restart"
    /\ run'[r].pc = "done"
    /\ Ok(r, "up")' \/ Ok(r, "upLegacy")'

\* the run has stopped the service and its archive build has not ended
Building(r) == run[r].guarded /\ run[r].pc = "archive"

\* C33: of two overlapping runs whose tasks name the same compose file,
\* neither starts the service while the other is between its stop and the
\* end of its archive build.
C33_NoRestartDuringOtherBuild ==
    [][\A r \in Runs : \A s \in Runs \ {r} :
          (/\ run[r].task.DockerComposePath = run[s].task.DockerComposePath
           /\ Building(s))
             => ~Starts(r)]_vars

====
